---------------------------- MODULE Spec2Model ----------------------------
(***************************************************************************)
(* VideoLingo: subtitle segmentation and timeline synchronisation.         *)
(*                                                                         *)
(* The module models parts of the pipeline, each with its own              *)
(* specification over its own group of variables:                          *)
(*   SpecSrt        core/_8_1_audio_task.py   process_srt                  *)
(*   SpecAudio      core/_11_merge_audio.py   merge_audio_segments         *)
(*   SpecGpt        core/utils/ask_gpt.py     ask_gpt, RateLimiter         *)
(*   SpecTranslate  core/_4_2_translate.py    translate_all,               *)
(*                  core/translate_lines.py   translate_lines              *)
(*   SpecTrim       core/_8_1_audio_task.py   batch_trim_subtitles, and    *)
(*                  core/_4_2_translate.py    the trimming of translate_all*)
(*   SpecChunks     core/_4_2_translate.py    split_chunks_by_chars        *)
(*   SpecMeaning, SpecBatch                                                *)
(*                  core/_3_2_split_meaning.py                             *)
(*   SpecSub        core/_5_split_sub.py      split_for_sub_main           *)
(*   SpecNlp, SpecMark                                                     *)
(*                  core/spacy_utils          the sentence splitters       *)
(* Times are whole seconds; texts are sequences of characters or tokens.   *)
(***************************************************************************)
EXTENDS Integers, Sequences, FiniteSets, TLC

VARIABLES
    \* ---- process_srt
    df_aligned,     \* the table read from _6_ALIGNED_FOR_AUDIO
    df,             \* the working DataFrame of process_srt
    i,              \* the scan index of process_srt (0-based, as in the code)
    srt_pc,         \* "read" | "loop" | "done"
    \* ---- merge_audio_segments
    tasks,          \* per task: its window (new_sub_times) and its clip file (audios)
    processed_segments, \* first pass: task -> decoded duration (the dict of line 100)
    pending,        \* first pass: the submitted files whose future has not completed
    merged_audio,   \* the track so far: a sequence of silence and clip pieces
    a_idx,          \* second pass: the 0-based index of the fold
    audio_pc,       \* "start" | "process" | "merge" | "done" | "raised"
    \* ---- ask_gpt and RATE_LIMITER
    gpt,            \* per calling thread: where its ask_gpt call stands
    limiter,        \* RATE_LIMITER: last_429_time, cooldown_duration, consecutive_success
    lock,           \* RATE_LIMITER.lock: the thread that holds it, 0 when free
    now,            \* time.time(), in seconds
    streak,         \* history: the calls of the service that succeeded in a row since
                    \* the last failed call or the last decay of the cooldown
    \* ---- translate_all, translate_lines
    sentences_data, \* the table read from _3_2_SPLIT_BY_MEANING
    reflect_translate, \* load_key('reflect_translate')
    chunks,         \* split_chunks_by_chars(1000, 20)
    workers,        \* per chunk: where its translate_chunk task stands
    results,        \* the (chunk_index, result_list) pairs collected so far
    df_translate,   \* the table assembled from all_results
    ta_pc,          \* "start" | "running" | "assembled" | "raised"
    \* ---- batch_trim_subtitles
    batches,        \* the argument: a list of items with an id and a text
    trim_attempt,   \* the loop variable of ask_gpt's except_handler wrapper
    trim_requests,  \* the number of requests sent to the service
    trim_result,    \* the returned dict
    trim_pc,        \* "start" | "asked" | "returned" | "fellback" | "applied"
    df_time,        \* translate_all: the Translation column of df_time, by row label
    \* ---- split_chunks_by_chars
    ck_sentences,   \* sentences_data: the rows of _3_2_SPLIT_BY_MEANING
    ck_size,        \* the argument chunk_size
    ck_max,         \* the argument max_i
    ck_acc,         \* the locals chunks, chunk, current_char_count, sentence_count
    row_idx,        \* the loop variable (0-based): the next row to look at
    ck_pc,          \* "loop" | "returned"
    \* ---- parallel_split_sentences
    ms_sentences,   \* sentences_data: the rows handed to one pass
    to_split,       \* the indexes (1-based) of the rows to split
    new_sentences_data, \* per row: the list of records that replaces it, <<>> for None
    ms_pc,          \* "scan" | "batch" | "fill" | "returned" | "raised"
    \* ---- split_for_sub_main
    sub_in,         \* the table read from _4_2_TRANSLATION
    sub_set,        \* load_key("subtitle")
    sub_joiner,     \* get_joiner(language)
    sub_main,       \* the locals src, trans, speaker_ids and attempt
    sub_scan,       \* the locals of the running split_align_subs
    sub_ret,        \* what the last split_align_subs returned
    sub_requests,   \* history: the requests sent to the service
    sub_scans,      \* history: the calls of split_align_subs
    sub_out,        \* the tables written, <<>> before
    sub_pc,         \* "loop" | "scan" | "flatten" | "check" | "final" | "pad" | "done"
    \* ---- split_by_comma_main, split_sentences_main, split_long_by_root_main
    nl_rows,        \* the table handed from one stage to the next
    nl_joiner,      \* get_joiner(language)
    nl_all,         \* all_split_sentences of split_long_by_root_main
    nl_idx,         \* the rows split_long_by_root_main has looked at
    nl_cuts,        \* history: what each splitter was given and returned
    nl_pc,          \* "comma" | "connector" | "root" | "written" | "raised"
    \* ---- batch_split_sentences and the batch loop of parallel_split_sentences
    bs_rows,        \* sentences_data: the rows handed to the pass
    bs_joiner,      \* get_joiner(language)
    bs_i,           \* the loop variable i of line 156
    bs_new,         \* new_sentences_data, <<>> for None
    bs_batch,       \* history: the batch of the last request, as row numbers
    bs_response,    \* history: the response ask_gpt returned for it, <<>> for none
    bs_unsplit,     \* history: the rows whose request failed or got no usable split
    bs_out,         \* the returned list
    bs_pc,          \* "scan" | "batch" | "returned" | "raised"
    \* ---- split_by_mark
    mk_chunks,      \* the table read from cleaned_chunks.xlsx
    mk_joiner,      \* get_joiner(language)
    mk_i,           \* the rows the loop of line 30 has looked at
    mk_group,       \* the locals current_speaker and group_text
    sentences_by_mark, \* the sentences of the groups processed so far
    mk_final,       \* final_sentences as written, <<>> before
    mk_pc           \* "loop" | "merge" | "written"

srtVars == <<df_aligned, df, i, srt_pc>>
audioVars == <<tasks, processed_segments, pending, merged_audio, a_idx, audio_pc>>

gptVars == <<gpt, limiter, lock, now, streak>>

taVars == <<sentences_data, reflect_translate, chunks, workers, results, df_translate, ta_pc>>

trimVars == <<batches, trim_attempt, trim_requests, trim_result, trim_pc, df_time>>

chunkVars == <<ck_sentences, ck_size, ck_max, ck_acc, row_idx, ck_pc>>

msVars == <<ms_sentences, to_split, new_sentences_data, ms_pc>>

subVars == <<sub_in, sub_set, sub_joiner, sub_main, sub_scan, sub_ret, sub_requests, sub_scans,
            sub_out, sub_pc>>

nlpVars == <<nl_rows, nl_joiner, nl_all, nl_idx, nl_cuts, nl_pc>>

bsVars == <<bs_rows, bs_joiner, bs_i, bs_new, bs_batch, bs_response, bs_unsplit, bs_out, bs_pc>>

mkVars == <<mk_chunks, mk_joiner, mk_i, mk_group, sentences_by_mark, mk_final, mk_pc>>

vars == <<srtVars, audioVars, gptVars, taVars, trimVars, chunkVars, msVars, subVars, nlpVars, bsVars, mkVars>>

\* the variables of the other parts, which a part leaves alone
srtOthers == <<audioVars, gptVars, taVars, trimVars, chunkVars, msVars, subVars, nlpVars, bsVars, mkVars>>
audioOthers == <<srtVars, gptVars, taVars, trimVars, chunkVars, msVars, subVars, nlpVars, bsVars, mkVars>>
gptOthers == <<srtVars, audioVars, taVars, trimVars, chunkVars, msVars, subVars, nlpVars, bsVars, mkVars>>
taOthers == <<srtVars, audioVars, gptVars, trimVars, chunkVars, msVars, subVars, nlpVars, bsVars, mkVars>>
trimOthers == <<srtVars, audioVars, gptVars, taVars, chunkVars, msVars, subVars, nlpVars, bsVars, mkVars>>
chunkOthers == <<srtVars, audioVars, gptVars, taVars, trimVars, msVars, subVars, nlpVars, bsVars, mkVars>>
msOthers == <<srtVars, audioVars, gptVars, taVars, trimVars, chunkVars, subVars, nlpVars, bsVars, mkVars>>
subOthers == <<srtVars, audioVars, gptVars, taVars, trimVars, chunkVars, msVars, nlpVars, bsVars, mkVars>>
nlpOthers == <<srtVars, audioVars, gptVars, taVars, trimVars, chunkVars, msVars, subVars, bsVars, mkVars>>
bsOthers == <<srtVars, audioVars, gptVars, taVars, trimVars, chunkVars, msVars, subVars, nlpVars, mkVars>>
mkOthers == <<srtVars, audioVars, gptVars, taVars, trimVars, chunkVars, msVars, subVars, nlpVars, bsVars>>

(***************************************************************************)
(* Generic helpers                                                         *)
(***************************************************************************)
\* pandas' missing value (None / NaN) of a speaker_id cell
NaN == "NaN"

RECURSIVE SumSeq(_)
SumSeq(s) == IF s = <<>> THEN 0 ELSE s[1] + SumSeq(Tail(s))

\* the sequence s without its k-th element (1-based)
RemoveAt(s, k) == [j \in 1..(Len(s) - 1) |-> IF j < k THEN s[j] ELSE s[j + 1]]

(***************************************************************************)
(* The parts that are not running                                          *)
(***************************************************************************)
IdleSrt == df_aligned = <<>> /\ df = <<>> /\ i = 0 /\ srt_pc = "idle"

IdleAudio ==
    /\ tasks = <<>>
    /\ processed_segments = <<>>
    /\ pending = {}
    /\ merged_audio = <<>>
    /\ a_idx = 0
    /\ audio_pc = "idle"

\* RateLimiter.__init__
NewLimiter == [last_429_time |-> 0, cooldown_duration |-> 0, consecutive_success |-> 0]

IdleGpt ==
    /\ gpt = <<>>
    /\ limiter = NewLimiter
    /\ lock = 0
    /\ now = 0
    /\ streak = 0

\* lines 25-28 of _4_2_translate.py
NewAcc == [chunks |-> <<>>, chunk |-> <<>>, current_char_count |-> 0, sentence_count |-> 0]

IdleChunk ==
    /\ ck_sentences = <<>>
    /\ ck_size = 0
    /\ ck_max = 0
    /\ ck_acc = NewAcc
    /\ row_idx = 0
    /\ ck_pc = "idle"

IdleMs ==
    /\ ms_sentences = <<>>
    /\ to_split = <<>>
    /\ new_sentences_data = <<>>
    /\ ms_pc = "idle"

\* speaker_ids of line 126: None when the table has no such column
NoSpeakers == [some |-> FALSE, ids |-> <<>>]

\* the state of split_for_sub_main before its run
NoScan == [src_lines |-> <<>>, tr_lines |-> <<>>, remerged_tr_lines |-> <<>>,
           speaker_ids |-> NoSpeakers, to_split |-> {}, caller |-> "none"]
NoReturn == [split_src |-> <<>>, split_trans |-> <<>>, remerged |-> <<>>,
             split_speaker_ids |-> NoSpeakers, origin |-> <<>>, rem_origin |-> <<>>]
NoMain == [src |-> <<>>, trans |-> <<>>, speaker_ids |-> NoSpeakers, attempt |-> 0,
           origin |-> <<>>]

IdleSub ==
    /\ sub_in = NoMain
    /\ sub_set = <<>>
    /\ sub_joiner = <<>>
    /\ sub_main = NoMain
    /\ sub_scan = NoScan
    /\ sub_ret = NoReturn
    /\ sub_requests = 0
    /\ sub_scans = 0
    /\ sub_out = <<>>
    /\ sub_pc = "idle"

IdleNlp ==
    /\ nl_rows = <<>>
    /\ nl_joiner = <<>>
    /\ nl_all = <<>>
    /\ nl_idx = 0
    /\ nl_cuts = {}
    /\ nl_pc = "idle"

IdleBs ==
    /\ bs_rows = <<>>
    /\ bs_joiner = <<>>
    /\ bs_i = 0
    /\ bs_new = <<>>
    /\ bs_batch = <<>>
    /\ bs_response = <<>>
    /\ bs_unsplit = {}
    /\ bs_out = <<>>
    /\ bs_pc = "idle"

IdleMk ==
    /\ mk_chunks = <<>>
    /\ mk_joiner = <<>>
    /\ mk_i = 0
    /\ mk_group = <<>>
    /\ sentences_by_mark = <<>>
    /\ mk_final = <<>>
    /\ mk_pc = "idle"

IdleTrim ==
    /\ batches = <<>>
    /\ trim_attempt = 0
    /\ trim_requests = 0
    /\ trim_result = <<>>
    /\ trim_pc = "idle"
    /\ df_time = <<>>

IdleTa ==
    /\ sentences_data = <<>>
    /\ reflect_translate = FALSE
    /\ chunks = <<>>
    /\ workers = <<>>
    /\ results = <<>>
    /\ df_translate = <<>>
    /\ ta_pc = "idle"

(***************************************************************************)
(* process_srt  (core/_8_1_audio_task.py)                                  *)
(***************************************************************************)
\* bound: the number of rows of the aligned table
MaxRows == 3

\* load_key("min_subtitle_duration"), in seconds
MIN_SUB_DUR == 3

\* datetime.time wraps at midnight: seconds in a day
DAY == 86400

\* the single space ' ' that the merge puts between two texts, as a token
SP == 0

Speakers == {NaN, "S1", "S2"}
\* differences of successive start times: below and at MIN_SUB_DUR
Gaps == {1, MIN_SUB_DUR}
\* row durations: below and at MIN_SUB_DUR
Durs == {1, MIN_SUB_DUR}

\* a row of the aligned table whose timestamp cell cannot be parsed
BadShape == [ok |-> FALSE, gap |-> 0, dur |-> 0, spk |-> NaN]
RowShapes == [ok : {TRUE}, gap : Gaps, dur : Durs, spk : Speakers] \cup {BadShape}

ShapeStart(sh, k) == SumSeq([j \in 1..k |-> sh[j].gap])

\* subtitles of the aligned table do not overlap: a row ends before the next
\* parsable row starts
NoOverlap(sh) ==
    \A k \in 1..Len(sh) : \A m \in (k + 1)..Len(sh) :
        (sh[k].ok /\ sh[m].ok) => sh[k].dur <= ShapeStart(sh, m) - ShapeStart(sh, k)

AlignedOf(sh) ==
    [k \in 1..Len(sh) |->
        [ok         |-> sh[k].ok,
         start      |-> ShapeStart(sh, k),
         end        |-> ShapeStart(sh, k) + sh[k].dur,
         duration   |-> sh[k].dur,
         \* the texts of row k are named by the row's position
         Translation |-> <<k>>,
         Source     |-> <<k>>,
         speaker_id |-> sh[k].spk]]

AlignedTables ==
    { AlignedOf(sh) : sh \in { s \in UNION { [1..n -> RowShapes] : n \in 1..MaxRows } :
                                 NoOverlap(s) /\ \E k \in 1..Len(s) : s[k].ok } }

\* lines 65-97: one subtitle per parsable row, number = row index + 1
RECURSIVE ParseRows(_, _)
ParseRows(tbl, k) ==
    IF k > Len(tbl) THEN <<>>
    ELSE (IF tbl[k].ok
          THEN << [number     |-> k,
                   start_time |-> tbl[k].start,
                   end_time   |-> tbl[k].end,
                   duration   |-> tbl[k].duration,
                   text       |-> tbl[k].Translation,
                   origin     |-> tbl[k].Source,
                   speaker_id |-> tbl[k].speaker_id] >>
          ELSE <<>>) \o ParseRows(tbl, k + 1)

\* row at 0-based label k of a DataFrame with a fresh RangeIndex
Loc(d, k) == d[k + 1]

time_diff_seconds(t1, t2) == t2 - t1

isna(x) == x = NaN

\* line 112
speaker_next(d, k) == IF k < Len(d) - 1 THEN Loc(d, k + 1).speaker_id ELSE NaN

\* a merge criterion that ignores the speakers
same_speaker_any(d, k) == TRUE

\* line 113; NaN == NaN is False in pandas, two strings compare by value
same_speaker(d, k) ==
    \/ isna(Loc(d, k).speaker_id) /\ isna(speaker_next(d, k))
    \/ /\ ~isna(Loc(d, k).speaker_id)
       /\ Loc(d, k).speaker_id = speaker_next(d, k)

\* lines 115-119
can_merge(d, k) ==
    /\ k < Len(d) - 1
    /\ time_diff_seconds(Loc(d, k).start_time, Loc(d, k + 1).start_time) < MIN_SUB_DUR
    /\ same_speaker(d, k)

\* a merge that forgets to take over the end of the consumed row (line 125)
MergedRow_keepEnd(d, k) ==
    [Loc(d, k) EXCEPT
        !.text     = @ \o <<SP>> \o Loc(d, k + 1).text,
        !.origin   = @ \o <<SP>> \o Loc(d, k + 1).origin,
        !.duration = time_diff_seconds(Loc(d, k).start_time, Loc(d, k + 1).end_time)]

\* lines 123-126
MergedRow(d, k) ==
    [Loc(d, k) EXCEPT
        !.text     = @ \o <<SP>> \o Loc(d, k + 1).text,
        !.origin   = @ \o <<SP>> \o Loc(d, k + 1).origin,
        !.end_time = Loc(d, k + 1).end_time,
        !.duration = time_diff_seconds(Loc(d, k).start_time, Loc(d, k + 1).end_time)]

\* a merge that leaves the consumed row in the table
MergeRows_noDrop(d, k) == [d EXCEPT ![k + 1] = MergedRow(d, k)]

\* lines 123-127: merge row k+1 into row k, drop row k+1, reset the index
MergeRows(d, k) == RemoveAt([d EXCEPT ![k + 1] = MergedRow(d, k)], k + 2)

\* an extension that moves the end and leaves the duration column as it was
ExtendRow_endOnly(d, k) ==
    [d EXCEPT ![k + 1] = [Loc(d, k) EXCEPT
                             !.end_time = (Loc(d, k).start_time + MIN_SUB_DUR) % DAY]]

\* lines 131-133
ExtendRow(d, k) ==
    [d EXCEPT ![k + 1] = [Loc(d, k) EXCEPT
                             !.end_time = (Loc(d, k).start_time + MIN_SUB_DUR) % DAY,
                             !.duration = MIN_SUB_DUR]]

\* lines 140-141: strftime('%H:%M:%S.%f')[:-3]; the text 'HH:MM:SS.mmm' is
\* written as the number its nine digits spell
StrfTime(t) ==
    (t \div 3600) * 10000000 + ((t % 3600) \div 60) * 100000 + (t % 60) * 1000

FormatTimes(d) ==
    [k \in 1..Len(d) |-> [d[k] EXCEPT !.start_time = StrfTime(@), !.end_time = StrfTime(@)]]

InitSrt ==
    /\ df_aligned \in AlignedTables
    /\ df = <<>>
    /\ i = 0
    /\ srt_pc = "read"
    /\ IdleAudio /\ IdleGpt /\ IdleTa /\ IdleTrim /\ IdleChunk /\ IdleMs /\ IdleSub /\ IdleNlp /\ IdleBs /\ IdleMk

\* lines 62-99
SrtRead ==
    /\ srt_pc = "read"
    /\ df' = ParseRows(df_aligned, 1)
    /\ srt_pc' = "loop"
    /\ UNCHANGED <<df_aligned, i>>
    /\ UNCHANGED srtOthers

\* lines 121-127
SrtMerge ==
    /\ srt_pc = "loop"
    /\ i < Len(df)
    /\ Loc(df, i).duration < MIN_SUB_DUR
    /\ can_merge(df, i)
    /\ df' = MergeRows(df, i)
    /\ UNCHANGED <<df_aligned, i, srt_pc>>
    /\ UNCHANGED srtOthers

\* lines 129-133, 136
SrtExtend ==
    /\ srt_pc = "loop"
    /\ i < Len(df)
    /\ Loc(df, i).duration < MIN_SUB_DUR
    /\ ~can_merge(df, i)
    /\ i < Len(df) - 1
    /\ df' = ExtendRow(df, i)
    /\ i' = i + 1
    /\ UNCHANGED <<df_aligned, srt_pc>>
    /\ UNCHANGED srtOthers

\* lines 134-136
SrtLastShort ==
    /\ srt_pc = "loop"
    /\ i < Len(df)
    /\ Loc(df, i).duration < MIN_SUB_DUR
    /\ ~can_merge(df, i)
    /\ ~(i < Len(df) - 1)
    /\ i' = i + 1
    /\ UNCHANGED <<df_aligned, df, srt_pc>>
    /\ UNCHANGED srtOthers

\* lines 137-138
SrtAdvance ==
    /\ srt_pc = "loop"
    /\ i < Len(df)
    /\ ~(Loc(df, i).duration < MIN_SUB_DUR)
    /\ i' = i + 1
    /\ UNCHANGED <<df_aligned, df, srt_pc>>
    /\ UNCHANGED srtOthers

\* lines 140-143
SrtReturn ==
    /\ srt_pc = "loop"
    /\ ~(i < Len(df))
    /\ df' = FormatTimes(df)
    /\ srt_pc' = "done"
    /\ UNCHANGED <<df_aligned, i>>
    /\ UNCHANGED srtOthers

NextSrt == SrtRead \/ SrtMerge \/ SrtExtend \/ SrtLastShort \/ SrtAdvance \/ SrtReturn

SpecSrt == InitSrt /\ [][NextSrt]_vars

\* process_srt is one sequential function: a step that can be taken is
\* taken; every step changes i, the length of df or the place in the code
SpecSrtLive == SpecSrt /\ WF_<<i, Len(df), srt_pc>>(NextSrt)

(***************************************************************************)
(* merge_audio_segments  (core/_11_merge_audio.py)                         *)
(* Times and durations are in units of 1 s; a piece of the track is        *)
(* [kind, task, dur].                                                      *)
(***************************************************************************)
\* bound: the number of audio tasks
MaxTasks == 3

\* the silence between the end of a window and the start of the next
TaskGaps == {0, 1}
\* the length of a task's window
WinLens == {2}
\* what becomes of a clip file: it does not exist; it decodes; neither decode
\* path of process_audio_segment_optimized can read it
FileStates == {"missing", "ok", "undecodable"}
\* a clip's duration relative to its window
ClipSlack == {-1, 0, 1}

TaskShapes ==
    { sh \in [gap : TaskGaps, win : WinLens, file : FileStates, slack : ClipSlack] :
        sh.file # "ok" => sh.slack = 0 }

TaskStart(sh, k) == SumSeq([j \in 1..k |-> sh[j].gap + (IF j < k THEN sh[j].win ELSE 0)])

\* audios and new_sub_times as merge_full_audio hands them over
TasksOf(sh) ==
    [k \in 1..Len(sh) |->
        [start |-> TaskStart(sh, k),
         end   |-> TaskStart(sh, k) + sh[k].win,
         file  |-> sh[k].file,
         \* the duration of the decoded clip
         clip  |-> sh[k].win + sh[k].slack]]

\* merge_full_audio returns before the merge when the first file is missing
TaskLists ==
    { TasksOf(sh) : sh \in { s \in UNION { [1..n -> TaskShapes] : n \in 1..MaxTasks } :
                               s[1].file # "missing" } }

\* os.path.exists(audio_file)
exists(t) == t.file # "missing"

\* process_audio_segment_optimized: <<duration of the decoded clip>>, or <<>>
\* for None
process_audio_segment_optimized(t) == IF t.file = "ok" THEN <<t.clip>> ELSE <<>>

\* lines 147-156: the silence put before the clip of task k (1-based)
silence_duration(ts, k) ==
    IF k > 1 THEN ts[k].start - ts[k - 1].end ELSE ts[k].start

SilencePieces(ts, k) ==
    IF silence_duration(ts, k) > 0
    THEN << [kind |-> "silence", task |-> k, dur |-> silence_duration(ts, k)] >>
    ELSE <<>>

\* lines 145-158
AppendSegment(track, ts, k, dur) ==
    track \o SilencePieces(ts, k) \o << [kind |-> "clip", task |-> k, dur |-> dur] >>

\* len(merged_audio)
TrackLen(track) == SumSeq([j \in 1..Len(track) |-> track[j].dur])

InitAudio ==
    /\ tasks \in TaskLists
    /\ processed_segments = <<>>
    /\ pending = {}
    /\ merged_audio = <<>>
    /\ a_idx = 0
    /\ audio_pc = "start"
    /\ IdleSrt /\ IdleGpt /\ IdleTa /\ IdleTrim /\ IdleChunk /\ IdleMs /\ IdleSub /\ IdleNlp /\ IdleBs /\ IdleMk

\* lines 100-111: the files that exist are submitted to the pool
AudioSubmit ==
    /\ audio_pc = "start"
    /\ pending' = { k \in 1..Len(tasks) : exists(tasks[k]) }
    /\ processed_segments' = [k \in {} |-> 0]
    /\ audio_pc' = "process"
    /\ UNCHANGED <<tasks, merged_audio, a_idx>>
    /\ UNCHANGED audioOthers

\* lines 113-117 / 120-124: a future completes; a None result is not stored
AudioProcessed(k) ==
    /\ audio_pc = "process"
    /\ k \in pending
    /\ pending' = pending \ {k}
    /\ processed_segments' =
         IF process_audio_segment_optimized(tasks[k]) # <<>>
         THEN [j \in DOMAIN processed_segments \cup {k} |->
                 IF j = k THEN process_audio_segment_optimized(tasks[k])[1]
                 ELSE processed_segments[j]]
         ELSE processed_segments
    /\ UNCHANGED <<tasks, merged_audio, a_idx, audio_pc>>
    /\ UNCHANGED audioOthers

\* lines 126-131: the pool is drained, the fold starts
AudioStartMerge ==
    /\ audio_pc = "process"
    /\ pending = {}
    /\ audio_pc' = "merge"
    /\ UNCHANGED <<tasks, processed_segments, pending, merged_audio, a_idx>>
    /\ UNCHANGED audioOthers

\* lines 134-137: a missing file is skipped
AudioSkipMissing ==
    /\ audio_pc = "merge"
    /\ a_idx < Len(tasks)
    /\ ~exists(tasks[a_idx + 1])
    /\ a_idx' = a_idx + 1
    /\ UNCHANGED <<tasks, processed_segments, pending, merged_audio, audio_pc>>
    /\ UNCHANGED audioOthers

\* lines 140-141, 145-159
AudioAppend ==
    /\ audio_pc = "merge"
    /\ a_idx < Len(tasks)
    /\ exists(tasks[a_idx + 1])
    /\ (a_idx + 1) \in DOMAIN processed_segments
    /\ merged_audio' = AppendSegment(merged_audio, tasks, a_idx + 1,
                                     processed_segments[a_idx + 1])
    /\ a_idx' = a_idx + 1
    /\ UNCHANGED <<tasks, processed_segments, pending, audio_pc>>
    /\ UNCHANGED audioOthers

\* lines 142-143, 39-56: process_audio_segment on a file the first pass could
\* not decode: ffmpeg is run without check, AudioSegment.from_mp3 then reads
\* the temp file; a decodable result is appended
AudioAppendOnTheFly ==
    /\ audio_pc = "merge"
    /\ a_idx < Len(tasks)
    /\ exists(tasks[a_idx + 1])
    /\ (a_idx + 1) \notin DOMAIN processed_segments
    /\ merged_audio' = AppendSegment(merged_audio, tasks, a_idx + 1, tasks[a_idx + 1].clip)
    /\ a_idx' = a_idx + 1
    /\ UNCHANGED <<tasks, processed_segments, pending, audio_pc>>
    /\ UNCHANGED audioOthers

\* lines 142-143, 53-54: ... or from_mp3 raises, and nothing catches it
AudioOnTheFlyRaises ==
    /\ audio_pc = "merge"
    /\ a_idx < Len(tasks)
    /\ exists(tasks[a_idx + 1])
    /\ (a_idx + 1) \notin DOMAIN processed_segments
    /\ audio_pc' = "raised"
    /\ UNCHANGED <<tasks, processed_segments, pending, merged_audio, a_idx>>
    /\ UNCHANGED audioOthers

\* line 161
AudioReturn ==
    /\ audio_pc = "merge"
    /\ ~(a_idx < Len(tasks))
    /\ audio_pc' = "done"
    /\ UNCHANGED <<tasks, processed_segments, pending, merged_audio, a_idx>>
    /\ UNCHANGED audioOthers

NextAudio ==
    \/ AudioSubmit
    \/ \E k \in 1..MaxTasks : AudioProcessed(k)
    \/ AudioStartMerge
    \/ AudioSkipMissing
    \/ AudioAppend
    \/ AudioAppendOnTheFly
    \/ AudioOnTheFlyRaises
    \/ AudioReturn

SpecAudio == InitAudio /\ [][NextAudio]_vars

(***************************************************************************)
(* ask_gpt and RateLimiter  (core/utils/ask_gpt.py)                        *)
(*                                                                         *)
(* A thread's call of the decorated ask_gpt goes through                   *)
(*   "wait"     RATE_LIMITER.wait_if_needed()                 (line 97)    *)
(*   "sleep"    time.sleep(wait_time) inside wait_if_needed   (line 36)    *)
(*   "send"     client.chat.completions.create is called      (line 118)   *)
(*   "inflight" the request is with the service                            *)
(* and ends "returned" or "raised".  The response cache is empty (a first  *)
(* run) and the API key is set.  Time passes only while a thread sleeps.   *)
(***************************************************************************)
\* bound: the number of threads that call ask_gpt
MaxThreads == 2

Threads == 1..MaxThreads

\* @except_handler("GPT request failed", retry=5)
GptRetry == 5

\* what the service answers to one request: content that passes the caller's
\* validator, content that fails it, a 429 / rate_limit error, another error
Answers == {"ok", "invalid", "429", "error"}

Max(a, b) == IF a > b THEN a ELSE b
Min(a, b) == IF a < b THEN a ELSE b

\* lines 31-33
wait_time(l, t) ==
    IF l.cooldown_duration > 0
    THEN Max(0, l.cooldown_duration - (t - l.last_429_time))
    ELSE 0

\* report_error without the cap of line 46
report_error_nocap(l, t) ==
    [last_429_time       |-> t,
     cooldown_duration   |-> IF l.cooldown_duration = 0 THEN 2 ELSE l.cooldown_duration * 2,
     consecutive_success |-> 0]

\* report_error(is_429=True), lines 40-47
report_error(l, t) ==
    [last_429_time       |-> t,
     cooldown_duration   |-> IF l.cooldown_duration = 0 THEN 2
                             ELSE Min(l.cooldown_duration * 2, 60),
     consecutive_success |-> 0]

\* report_success, lines 51-56
report_success(l) ==
    IF l.consecutive_success + 1 >= 3
    THEN [l EXCEPT !.cooldown_duration = Max(0, @ - 1), !.consecutive_success = 0]
    ELSE [l EXCEPT !.consecutive_success = @ + 1]

\* a call of ask_gpt by thread t begins
NewCall == [pc |-> "wait", attempt |-> 0, wake |-> 0, error |-> "none"]

\* except_handler(retry=n): the wrapper calls the function again after an
\* exception until the retry budget is used up, and then raises the exception
except_handler(call, err) ==
    IF call.attempt < GptRetry
    THEN [call EXCEPT !.pc = "wait", !.attempt = @ + 1]
    ELSE [call EXCEPT !.pc = "raised", !.error = err]

InitGpt ==
    /\ gpt = [t \in Threads |-> NewCall]
    /\ limiter = NewLimiter
    /\ lock = 0
    /\ now = 0
    /\ streak = 0
    /\ IdleSrt /\ IdleAudio /\ IdleTa /\ IdleTrim /\ IdleChunk /\ IdleMs /\ IdleSub /\ IdleNlp /\ IdleBs /\ IdleMk

\* wait_if_needed, lines 30-34: no cooldown is left, the lock is released
GptNoWait(t) ==
    /\ gpt[t].pc = "wait"
    /\ lock = 0
    /\ wait_time(limiter, now) = 0
    /\ gpt' = [gpt EXCEPT ![t].pc = "send"]
    /\ UNCHANGED <<limiter, lock, now, streak>>
    /\ UNCHANGED gptOthers

\* wait_if_needed, lines 30-36: time.sleep(wait_time) inside "with self.lock"
GptSleep(t) ==
    /\ gpt[t].pc = "wait"
    /\ lock = 0
    /\ wait_time(limiter, now) > 0
    /\ lock' = t
    /\ gpt' = [gpt EXCEPT ![t].pc = "sleep", ![t].wake = now + wait_time(limiter, now)]
    /\ UNCHANGED <<limiter, now, streak>>
    /\ UNCHANGED gptOthers

\* line 36: the sleep ends, the with-block releases the lock
GptWake(t) ==
    /\ gpt[t].pc = "sleep"
    /\ lock = t
    /\ now' = Max(now, gpt[t].wake)
    /\ lock' = 0
    /\ gpt' = [gpt EXCEPT ![t].pc = "send", ![t].wake = 0]
    /\ UNCHANGED <<limiter, streak>>
    /\ UNCHANGED gptOthers

\* lines 99-118: the request goes out
GptSend(t) ==
    /\ gpt[t].pc = "send"
    /\ gpt' = [gpt EXCEPT ![t].pc = "inflight"]
    /\ UNCHANGED <<limiter, lock, now, streak>>
    /\ UNCHANGED gptOthers

\* lines 118-119, 129-143: a response that passes the validator
GptOk(t) ==
    /\ gpt[t].pc = "inflight"
    /\ lock = 0
    /\ limiter' = report_success(limiter)
    /\ gpt' = [gpt EXCEPT ![t].pc = "returned", ![t].error = "none"]
    /\ streak' = (streak + 1) % 3
    /\ UNCHANGED <<lock, now>>
    /\ UNCHANGED gptOthers

\* lines 118-119, 136-140: a response that fails the validator: ValueError
GptInvalid(t) ==
    /\ gpt[t].pc = "inflight"
    /\ lock = 0
    /\ limiter' = report_success(limiter)
    /\ gpt' = [gpt EXCEPT ![t] = except_handler(gpt[t], "invalid")]
    /\ streak' = (streak + 1) % 3
    /\ UNCHANGED <<lock, now>>
    /\ UNCHANGED gptOthers

\* lines 120-123: a 429 / rate_limit error is reported and raised again
Gpt429(t) ==
    /\ gpt[t].pc = "inflight"
    /\ lock = 0
    /\ limiter' = report_error(limiter, now)
    /\ gpt' = [gpt EXCEPT ![t] = except_handler(gpt[t], "429")]
    /\ streak' = 0
    /\ UNCHANGED <<lock, now>>
    /\ UNCHANGED gptOthers

\* lines 120-123: any other error is raised again
GptError(t) ==
    /\ gpt[t].pc = "inflight"
    /\ gpt' = [gpt EXCEPT ![t] = except_handler(gpt[t], "error")]
    /\ streak' = 0
    /\ UNCHANGED <<limiter, lock, now>>
    /\ UNCHANGED gptOthers

NextGpt ==
    \E t \in Threads :
        \/ GptNoWait(t)
        \/ GptSleep(t)
        \/ GptWake(t)
        \/ GptSend(t)
        \/ GptOk(t)
        \/ GptInvalid(t)
        \/ Gpt429(t)
        \/ GptError(t)

SpecGpt == InitGpt /\ [][NextGpt]_vars

(***************************************************************************)
(* translate_all (core/_4_2_translate.py), translate_lines                 *)
(* (core/translate_lines.py)                                               *)
(*                                                                         *)
(* Each chunk is translated by its own task of the thread pool.  A task    *)
(* stands at "queued", at "faithfulness" or "expressiveness" (a request of *)
(* that step is with the service), at "done" or at "raised".  One action   *)
(* is one answer of the service together with everything ask_gpt, its      *)
(* except_handler wrapper, retry_translation and translate_lines do with   *)
(* it up to the next request; the rate limiter only delays a request and   *)
(* is left out here.                                                       *)
(***************************************************************************)
\* bound: the number of sentences of the table
MaxSent == 2

\* translate_all: split_chunks_by_chars(chunk_size=1000, max_i=20)
CHUNK_SIZE == 1000
MAX_I == 20

\* len(sentence): two short sentences fit into one chunk, a long one and
\* another do not
SentLens == {400, 700}
\* item.get('speaker_id', None)
SentSpeakers == {"None", "SPEAKER_00"}

SentenceTables ==
    UNION { [1..n -> [text_len : SentLens, speaker_id : SentSpeakers]] : n \in 1..MaxSent }

\* the 'start' and 'end' cells of row k (1-based) of the table
StartOf(k) == 2 * k
EndOf(k) == 2 * k + 1

\* lines 35-36: len("[SPEAKER_00]: ") for a labelled sentence
PrefixLen(spk) == IF spk = "None" THEN 0 ELSE 14

\* len(labeled_sentence + '\n')
LabeledLen(item) == PrefixLen(item.speaker_id) + item.text_len + 1

\* lines 38-45; the text of row k is named by its id
sentence_data(tbl, k) ==
    [id           |-> k - 1,
     text         |-> [of |-> k - 1],
     speaker_id   |-> tbl[k].speaker_id,
     start        |-> StartOf(k),
     end          |-> EndOf(k),
     labeled_len  |-> LabeledLen(tbl[k])]

\* lines 47-51: the chunk is closed and the sentence opens the next one
CloseChunk(acc, sd) ==
    [chunks |-> Append(acc.chunks, <<Len(acc.chunks), acc.chunk>>),
     chunk  |-> <<sd>>,
     current_char_count |-> sd.labeled_len,
     sentence_count |-> 1]

\* lines 52-55: the sentence joins the chunk
ExtendChunk(acc, sd) ==
    [chunks |-> acc.chunks,
     chunk  |-> Append(acc.chunk, sd),
     current_char_count |-> acc.current_char_count + sd.labeled_len,
     sentence_count |-> acc.sentence_count + 1]

\* line 47
MustClose(acc, sd, size, maxi) ==
    acc.current_char_count + sd.labeled_len > size \/ acc.sentence_count = maxi

\* lines 25-58: acc = [chunks, chunk, current_char_count, sentence_count]
RECURSIVE ChunkLoop(_, _, _, _, _)
ChunkLoop(tbl, k, acc, chunk_size, max_i) ==
    IF k > Len(tbl)
    THEN (IF acc.chunk # <<>>
          THEN Append(acc.chunks, <<Len(acc.chunks), acc.chunk>>)
          ELSE acc.chunks)
    ELSE LET sd == sentence_data(tbl, k) IN
         IF MustClose(acc, sd, chunk_size, max_i)
         THEN ChunkLoop(tbl, k + 1, CloseChunk(acc, sd), chunk_size, max_i)
         ELSE ChunkLoop(tbl, k + 1, ExtendChunk(acc, sd), chunk_size, max_i)

split_chunks_by_chars(tbl, chunk_size, max_i) ==
    ChunkLoop(tbl, 1, NewAcc, chunk_size, max_i)

\* ---- what the service can answer to a translation request
\* An answer is [kind, body]: kind is "429", "error" or "json", and the body
\* of a json answer is a function from keys (line ids) to items [has_id, id,
\* has_origin, has_sub, text]; has_sub says whether the step's key ('direct'
\* or 'free') is there, text is its value: the translation of a line, or JSON
\* null.
Translation(step, k) == [kind |-> step, of |-> k]
Null == [kind |-> "null", of |-> -1]

GoodItem(step, k) ==
    [has_id |-> TRUE, id |-> k, has_origin |-> TRUE, has_sub |-> TRUE,
     text |-> Translation(step, k)]

GoodAnswer(step, E) == [k \in E |-> GoodItem(step, k)]

\* a key no line of the table has
ExtraKey == MaxSent

\* the answers that differ from the good one in one item
BadItems(step, k) ==
    { [GoodItem(step, k) EXCEPT !.has_id = FALSE],
      [GoodItem(step, k) EXCEPT !.id = ExtraKey],
      [GoodItem(step, k) EXCEPT !.has_sub = FALSE],
      [GoodItem(step, k) EXCEPT !.has_origin = FALSE],
      [GoodItem(step, k) EXCEPT !.text = Null] }

JsonAnswers(step, E) ==
    {GoodAnswer(step, E)}
    \cup { [k \in E \cup {ExtraKey} |-> GoodItem(step, k)] }
    \cup UNION { { [k \in E \ {x} |-> GoodItem(step, k)],
                   [k \in (E \ {x}) \cup {ExtraKey} |-> GoodItem(step, k)] } : x \in E }
    \cup UNION { { [GoodAnswer(step, E) EXCEPT ![x] = it] : it \in BadItems(step, x) } : x \in E }

\* the ids of the lines of a chunk (line 59)
ExpectedIds(lines) == { lines[j].id : j \in 1..Len(lines) }

\* a validator that does not compare the id sets
valid_translate_result_noIds(result, expected_ids, step) ==
    \A k \in DOMAIN result :
        result[k].has_id /\ result[k].id = k /\ result[k].has_sub

\* lines 9-44: status = "success"
valid_translate_result(result, expected_ids, step) ==
    /\ DOMAIN result = expected_ids
    /\ \A k \in DOMAIN result :
        result[k].has_id /\ result[k].id = k /\ result[k].has_sub

\* sorted(..., key=...) of a set of integer keys
RECURSIVE SortedKeys(_)
SortedKeys(K) ==
    IF K = {} THEN <<>>
    ELSE LET m == CHOOSE x \in K : \A y \in K : x <= y
         IN  <<m>> \o SortedKeys(K \ {m})

\* lines 94-103, 136-145: the row built for key, or nothing when no line of
\* the chunk has that id
ResultRows(lines, result, key) ==
    IF \E j \in 1..Len(lines) : lines[j].id = key
    THEN LET orig_data == lines[CHOOSE j \in 1..Len(lines) : lines[j].id = key]
         IN  << [id          |-> orig_data.id,
                 text        |-> orig_data.text,
                 translation |-> result[key].text,
                 speaker_id  |-> orig_data.speaker_id,
                 start       |-> orig_data.start,
                 end         |-> orig_data.end] >>
    ELSE <<>>

RECURSIVE BuildRows(_, _, _)
BuildRows(lines, result, keys) ==
    IF keys = <<>> THEN <<>>
    ELSE ResultRows(lines, result, keys[1]) \o BuildRows(lines, result, Tail(keys))

\* lines 90-103, 132-145
result_list(lines, result) == BuildRows(lines, result, SortedKeys(DOMAIN result))

\* a str method is called on the value: .replace of lines 84 and 141
HasNull(result) == \E k \in DOMAIN result : result[k].text = Null
\* faith_result[key]['origin'] of lines 108 and 288
LacksOrigin(result) == \E k \in DOMAIN result : ~result[k].has_origin

\* a task of the pool: step is the pc; retry is the loop variable of
\* retry_translation, attempt the one of except_handler, prompts the padding
\* (number of spaces appended) of each request of the current step, error
\* the last exception raised in the task
NewTask == [step |-> "queued", retry |-> 0, attempt |-> 0, prompts |-> <<>>,
            result_list |-> <<>>, error |-> "none"]

Lines(c) == chunks[c][2]

\* a request of retry_translation's current iteration goes out (lines 70, 72)
Request(w) == [w EXCEPT !.prompts = Append(@, w.retry)]

\* translate_lines returns rows: the locals of the call are gone
Return(rows) == [NewTask EXCEPT !.step = "done", !.result_list = rows]

Raise(w, err) == [w EXCEPT !.step = "raised", !.error = err]

InitTa ==
    /\ sentences_data \in SentenceTables
    /\ reflect_translate \in BOOLEAN
    /\ chunks = <<>>
    /\ workers = <<>>
    /\ results = <<>>
    /\ df_translate = <<>>
    /\ ta_pc = "start"
    /\ IdleSrt /\ IdleAudio /\ IdleGpt /\ IdleTrim /\ IdleChunk /\ IdleMs /\ IdleSub /\ IdleNlp /\ IdleBs /\ IdleMk

\* lines 100, 110-114: the chunks are cut and one task per chunk is submitted
TaSubmit ==
    /\ ta_pc = "start"
    /\ chunks' = split_chunks_by_chars(sentences_data, CHUNK_SIZE, MAX_I)
    /\ workers' = [c \in 1..Len(chunks') |-> NewTask]
    /\ ta_pc' = "running"
    /\ UNCHANGED <<sentences_data, reflect_translate, results, df_translate>>
    /\ UNCHANGED taOthers

\* translate_lines lines 56-81: the first faithfulness request
TlStart(c) ==
    /\ c \in DOMAIN workers
    /\ ta_pc \in {"running", "raised"}
    /\ workers[c].step = "queued"
    /\ workers' = [workers EXCEPT ![c] = Request([@ EXCEPT !.step = "faithfulness"])]
    /\ UNCHANGED <<sentences_data, reflect_translate, chunks, results, df_translate, ta_pc>>
    /\ UNCHANGED taOthers

StepOf(c) == workers[c].step
InFlight(c) == StepOf(c) \in {"faithfulness", "expressiveness"}

\* the answers to a request of task c
AnswersTo(c) ==
    { [kind |-> "429", body |-> <<>>], [kind |-> "error", body |-> <<>>] }
    \cup { [kind |-> "json", body |-> b] : b \in JsonAnswers(StepOf(c), ExpectedIds(Lines(c))) }

IsJson(r) == r.kind = "json"

\* ask_gpt raises: lines 120-123 (service error) or 136-140 (validator)
Rejected(c, r) ==
    \/ ~IsJson(r)
    \/ IsJson(r) /\ ~valid_translate_result(r.body, ExpectedIds(Lines(c)), StepOf(c))

\* the exception ask_gpt raises on answer r: the service's (line 123) or the
\* validator's ValueError (line 140)
Refusal(r) == IF IsJson(r) THEN "validation" ELSE "service"

\* ask_gpt raised and except_handler calls it again with the same arguments
TlAskAgain(c) ==
    /\ c \in DOMAIN workers
    /\ InFlight(c)
    /\ \E r \in AnswersTo(c) :
        /\ Rejected(c, r)
        /\ workers[c].attempt < GptRetry
        /\ workers' = [workers EXCEPT ![c] =
                          Request([@ EXCEPT !.attempt = @ + 1, !.error = Refusal(r)])]
    /\ UNCHANGED <<sentences_data, reflect_translate, chunks, results, df_translate, ta_pc>>
    /\ UNCHANGED taOthers

\* ask_gpt raised with the retry budget of except_handler used up: the
\* exception leaves ask_gpt, retry_translation, translate_lines and the task
TlAskRaises(c) ==
    /\ c \in DOMAIN workers
    /\ InFlight(c)
    /\ \E r \in AnswersTo(c) :
        /\ Rejected(c, r)
        /\ ~(workers[c].attempt < GptRetry)
        /\ workers' = [workers EXCEPT ![c] = Raise(@, Refusal(r))]
    /\ UNCHANGED <<sentences_data, reflect_translate, chunks, results, df_translate, ta_pc>>
    /\ UNCHANGED taOthers

\* lines 73-77 after ask_gpt returned result: the task that goes on in
\* retry_translation's loop, or leaves it
AfterReturn(w, lines, result, next) ==
    IF Cardinality(DOMAIN result) = Len(lines) THEN next
    ELSE IF w.retry # 2
         THEN Request([w EXCEPT !.retry = @ + 1, !.attempt = 0, !.error = "none"])
         ELSE Raise(w, "failed after 3 retries")

\* lines 83-114 (reflect_translate off) and 83-118 (on)
AfterFaith(w, lines, result) ==
    IF HasNull(result) THEN Raise(w, "AttributeError")
    ELSE IF LacksOrigin(result) THEN Raise(w, "KeyError")
    ELSE IF ~reflect_translate
         THEN Return(result_list(lines, result))
         ELSE Request([w EXCEPT !.step = "expressiveness", !.retry = 0, !.attempt = 0,
                                !.prompts = <<>>, !.error = "none"])

\* lines 120-151
AfterExpress(w, lines, result) ==
    IF HasNull(result) THEN Raise(w, "AttributeError")
    ELSE IF Len(result_list(lines, result)) # Len(lines) THEN Raise(w, "Length Mismatch")
    ELSE Return(result_list(lines, result))

\* ask_gpt returns a faithfulness answer that passed valid_faith
TlFaithReturns(c) ==
    /\ c \in DOMAIN workers
    /\ StepOf(c) = "faithfulness"
    /\ \E r \in AnswersTo(c) :
        /\ ~Rejected(c, r)
        /\ workers' = [workers EXCEPT ![c] =
                          AfterReturn(@, Lines(c), r.body, AfterFaith(@, Lines(c), r.body))]
    /\ UNCHANGED <<sentences_data, reflect_translate, chunks, results, df_translate, ta_pc>>
    /\ UNCHANGED taOthers

\* ask_gpt returns an expressiveness answer that passed valid_express
TlExpressReturns(c) ==
    /\ c \in DOMAIN workers
    /\ StepOf(c) = "expressiveness"
    /\ \E r \in AnswersTo(c) :
        /\ ~Rejected(c, r)
        /\ workers' = [workers EXCEPT ![c] =
                          AfterReturn(@, Lines(c), r.body, AfterExpress(@, Lines(c), r.body))]
    /\ UNCHANGED <<sentences_data, reflect_translate, chunks, results, df_translate, ta_pc>>
    /\ UNCHANGED taOthers

Collected == { results[j][1] + 1 : j \in 1..Len(results) }

\* lines 116-117: as_completed yields a finished task, its result is appended
TaCollect(c) ==
    /\ c \in DOMAIN workers
    /\ ta_pc = "running"
    /\ StepOf(c) = "done"
    /\ c \notin Collected
    /\ results' = Append(results, <<c - 1, workers[c].result_list>>)
    /\ UNCHANGED <<sentences_data, reflect_translate, chunks, workers, df_translate, ta_pc>>
    /\ UNCHANGED taOthers

\* line 117: future.result() raises the exception of the task; nothing in
\* translate_all catches it
TaCollectRaises(c) ==
    /\ c \in DOMAIN workers
    /\ ta_pc = "running"
    /\ StepOf(c) = "raised"
    /\ ta_pc' = "raised"
    /\ UNCHANGED <<sentences_data, reflect_translate, chunks, workers, results, df_translate>>
    /\ UNCHANGED taOthers

\* the sort keys of lines 120 and 129
SortKey(x, by) == IF by = "chunk" THEN x[1] ELSE x.id

\* list.sort(key=...): stable insertion by an integer key
RECURSIVE InsertByKey(_, _, _)
InsertByKey(sorted, x, by) ==
    IF sorted = <<>> THEN <<x>>
    ELSE IF SortKey(x, by) < SortKey(sorted[1], by) THEN <<x>> \o sorted
    ELSE <<sorted[1]>> \o InsertByKey(Tail(sorted), x, by)

RECURSIVE SortByKey(_, _)
SortByKey(s, by) ==
    IF s = <<>> THEN <<>>
    ELSE InsertByKey(SortByKey(SubSeq(s, 1, Len(s) - 1), by), s[Len(s)], by)

\* all_results.extend(result_list) over the collected pairs
RECURSIVE Extend(_)
Extend(rs) == IF rs = <<>> THEN <<>> ELSE rs[1][2] \o Extend(Tail(rs))

\* the collected lists one after the other, in the order of completion
all_results_as_completed(rs) == Extend(rs)

\* lines 120-129
all_results(rs) == SortByKey(Extend(SortByKey(rs, "chunk")), "id")

\* lines 132-149
DfTranslate(rows) ==
    [k \in 1..Len(rows) |->
        [Source      |-> rows[k].text,
         Translation |-> rows[k].translation,
         speaker_id  |-> rows[k].speaker_id,
         start       |-> rows[k].start,
         end         |-> rows[k].end]]

\* lines 120-149: every task has been collected
TaAssemble ==
    /\ ta_pc = "running"
    /\ Collected = 1..Len(chunks)
    /\ df_translate' = DfTranslate(all_results(results))
    /\ ta_pc' = "assembled"
    /\ UNCHANGED <<sentences_data, reflect_translate, chunks, workers, results>>
    /\ UNCHANGED taOthers

NextTa ==
    \/ TaSubmit
    \/ \E c \in 1..MaxSent :
         \/ TlStart(c)
         \/ TlAskAgain(c)
         \/ TlAskRaises(c)
         \/ TlFaithReturns(c)
         \/ TlExpressReturns(c)
         \/ TaCollect(c)
         \/ TaCollectRaises(c)
    \/ TaAssemble

SpecTranslate == InitTa /\ [][NextTa]_vars

(***************************************************************************)
(* batch_trim_subtitles (core/_8_1_audio_task.py)                          *)
(*                                                                         *)
(* A text is a sequence of characters.  One action is one answer of the    *)
(* service together with everything ask_gpt, its except_handler wrapper    *)
(* and batch_trim_subtitles do with it up to the next request or the       *)
(* return.                                                                 *)
(***************************************************************************)
\* bound: the number of items of a batch
MaxBatch == 2

\* the character class of line 40; the full-width characters are named by
\* their code points
Punctuation ==
    {",", ".", "!", "?", ";", ":",
     "uFF0C", "u3002", "uFF01", "uFF1F", "uFF1B", "uFF1A"}

\* item['text']: empty, punctuation and white space at the ends and inside,
\* ASCII and full-width
TrimTexts ==
    { <<>>,
      <<",">>,
      <<"a", ",", "b">>,
      <<"a", "u3002">>,
      <<"!", "a">>,
      <<" ", "a", " ">>,
      <<"a", "uFF1F", " ", "b", ".">>,
      <<"a", "-", "b">> }

\* the row labels of df_time an item can have as its id
TrimIds == 0..MaxBatch

\* the lists of items with ascending ids
BatchesOf(I) ==
    { [k \in 1..Cardinality(I) |-> [id |-> SortedKeys(I)[k], text |-> f[k]]] :
        f \in [1..Cardinality(I) -> TrimTexts] }

BatchLists == UNION { BatchesOf(I) : I \in { J \in SUBSET TrimIds : Cardinality(J) <= MaxBatch } }

\* str(item['id']): the key of a JSON object
Str(n) == [str |-> n]

BatchKeys(b) == { Str(b[k].id) : k \in 1..Len(b) }

\* re.sub(r'[,.!?;:...]', ' ', text) for the ASCII characters of the class only
re_sub_ascii(text) ==
    [k \in 1..Len(text) |-> IF text[k] \in {",", ".", "!", "?", ";", ":"} THEN " " ELSE text[k]]

\* line 40: re.sub(r'[,.!?;:...]', ' ', text)
re_sub(text) ==
    [k \in 1..Len(text) |-> IF text[k] \in Punctuation THEN " " ELSE text[k]]

\* str.lstrip, str.rstrip, str.strip
RECURSIVE lstrip(_)
lstrip(text) ==
    IF text # <<>> /\ text[1] = " " THEN lstrip(Tail(text)) ELSE text

RECURSIVE rstrip(_)
rstrip(text) ==
    IF text # <<>> /\ text[Len(text)] = " " THEN rstrip(SubSeq(text, 1, Len(text) - 1))
    ELSE text

strip(text) == lstrip(rstrip(text))

\* lines 38-41
fallback_results(b) ==
    [key \in BatchKeys(b) |->
        strip(re_sub(b[CHOOSE k \in 1..Len(b) : Str(b[k].id) = key].text))]

\* the shortened text the service gives for a key
Shortened(key) == <<"short", key.str>>

\* a key no item of a batch has
OtherKey == Str(MaxBatch + 1)

\* the keys of a response that are no id of batch b: labels of rows that were
\* not sent, and OtherKey
OtherKeys(b) == { Str(n) : n \in 0..(MaxBatch + 1) } \ BatchKeys(b)

\* int(tid)
int(tid) == tid.str

\* the Translation of a row that is not over budget
Unflagged == <<"kept">>

\* _4_2_translate.py lines 157-162: df_time when the items of to_trim are b;
\* a flagged row has the text of its item
DfTime(b) ==
    [l \in TrimIds |->
        IF \E k \in 1..Len(b) : b[k].id = l
        THEN b[CHOOSE k \in 1..Len(b) : b[k].id = l].text
        ELSE Unflagged]

\* what the service can answer to the trim request of batch b: [kind, body]
TrimAnswers(b) ==
    { [kind |-> "429", body |-> <<>>], [kind |-> "error", body |-> <<>>] }
    \cup { [kind |-> "json", body |-> [key \in K |-> Shortened(key)]] :
             K \in {BatchKeys(b)} \cup { BatchKeys(b) \cup {x} : x \in OtherKeys(b) }
                   \cup { BatchKeys(b) \ {x} : x \in BatchKeys(b) } }

\* lines 27-31: status = "success"
valid_batch_trim(b, response) ==
    \A k \in 1..Len(b) : Str(b[k].id) \in DOMAIN response

\* ask_gpt raises on answer r: lines 120-123 or 136-140 of ask_gpt.py
TrimRejected(r) == r.kind # "json" \/ ~valid_batch_trim(batches, r.body)

InitTrim ==
    /\ batches \in BatchLists
    /\ trim_attempt = 0
    /\ trim_requests = 0
    /\ trim_result = <<>>
    /\ trim_pc = "start"
    /\ df_time = DfTime(batches)
    /\ IdleSrt /\ IdleAudio /\ IdleGpt /\ IdleTa /\ IdleChunk /\ IdleMs /\ IdleSub /\ IdleNlp /\ IdleBs /\ IdleMk

\* lines 20-21
TrimEmpty ==
    /\ trim_pc = "start"
    /\ batches = <<>>
    /\ trim_result' = <<>>
    /\ trim_pc' = "returned"
    /\ UNCHANGED <<batches, trim_attempt, trim_requests, df_time>>
    /\ UNCHANGED trimOthers

\* lines 24-34: the first request of ask_gpt
TrimAsk ==
    /\ trim_pc = "start"
    /\ batches # <<>>
    /\ trim_requests' = 1
    /\ trim_pc' = "asked"
    /\ UNCHANGED <<batches, trim_attempt, trim_result, df_time>>
    /\ UNCHANGED trimOthers

\* lines 34-35: ask_gpt returns a response that has every id
TrimReturns ==
    /\ trim_pc = "asked"
    /\ \E r \in TrimAnswers(batches) :
        /\ ~TrimRejected(r)
        /\ trim_result' = r.body
    /\ trim_pc' = "returned"
    /\ UNCHANGED <<batches, trim_attempt, trim_requests, df_time>>
    /\ UNCHANGED trimOthers

\* ask_gpt raised and its except_handler wrapper calls it again
TrimAskAgain ==
    /\ trim_pc = "asked"
    /\ \E r \in TrimAnswers(batches) : TrimRejected(r)
    /\ trim_attempt < GptRetry
    /\ trim_attempt' = trim_attempt + 1
    /\ trim_requests' = trim_requests + 1
    /\ UNCHANGED <<batches, trim_result, trim_pc, df_time>>
    /\ UNCHANGED trimOthers

\* lines 36-41: the wrapper has used up its retries, ask_gpt raises and the
\* except clause builds the result
TrimFallback ==
    /\ trim_pc = "asked"
    /\ \E r \in TrimAnswers(batches) : TrimRejected(r)
    /\ ~(trim_attempt < GptRetry)
    /\ trim_result' = fallback_results(batches)
    /\ trim_pc' = "fellback"
    /\ UNCHANGED <<batches, trim_attempt, trim_requests, df_time>>
    /\ UNCHANGED trimOthers

\* _4_2_translate.py lines 164-172: translate_all writes every entry of the
\* returned dict into df_time; a label the table does not have is added by
\* DataFrame.at
TrimApply ==
    /\ trim_pc \in {"returned", "fellback"}
    /\ batches # <<>>
    /\ df_time' =
         [l \in DOMAIN df_time \cup { int(tid) : tid \in DOMAIN trim_result } |->
            IF Str(l) \in DOMAIN trim_result THEN trim_result[Str(l)] ELSE df_time[l]]
    /\ trim_pc' = "applied"
    /\ UNCHANGED <<batches, trim_attempt, trim_requests, trim_result>>
    /\ UNCHANGED trimOthers

NextTrim ==
    \/ TrimEmpty
    \/ TrimAsk
    \/ TrimReturns
    \/ TrimAskAgain
    \/ TrimFallback
    \/ TrimApply

SpecTrim == InitTrim /\ [][NextTrim]_vars

(***************************************************************************)
(* split_chunks_by_chars (core/_4_2_translate.py), one step per row        *)
(***************************************************************************)
\* bound: the number of rows of the table
MaxChunkRows == 3

\* len(sentence)
CkLens == {2, 4, 9}
\* the argument chunk_size
ChunkSizes == {8, 20}
\* the argument max_i
MaxIs == {1, 2}

CkTables ==
    UNION { [1..n -> [text_len : CkLens, speaker_id : SentSpeakers]] : n \in 0..MaxChunkRows }

InitChunk ==
    /\ ck_sentences \in CkTables
    /\ ck_size \in ChunkSizes
    /\ ck_max \in MaxIs
    /\ ck_acc = NewAcc
    /\ row_idx = 0
    /\ ck_pc = "loop"
    /\ IdleSrt /\ IdleAudio /\ IdleGpt /\ IdleTa /\ IdleTrim /\ IdleMs /\ IdleSub /\ IdleNlp /\ IdleBs /\ IdleMk

\* lines 30-51
CkClose ==
    /\ ck_pc = "loop"
    /\ row_idx < Len(ck_sentences)
    /\ MustClose(ck_acc, sentence_data(ck_sentences, row_idx + 1), ck_size, ck_max)
    /\ ck_acc' = CloseChunk(ck_acc, sentence_data(ck_sentences, row_idx + 1))
    /\ row_idx' = row_idx + 1
    /\ UNCHANGED <<ck_sentences, ck_size, ck_max, ck_pc>>
    /\ UNCHANGED chunkOthers

\* lines 30-45, 52-55
CkExtend ==
    /\ ck_pc = "loop"
    /\ row_idx < Len(ck_sentences)
    /\ ~MustClose(ck_acc, sentence_data(ck_sentences, row_idx + 1), ck_size, ck_max)
    /\ ck_acc' = ExtendChunk(ck_acc, sentence_data(ck_sentences, row_idx + 1))
    /\ row_idx' = row_idx + 1
    /\ UNCHANGED <<ck_sentences, ck_size, ck_max, ck_pc>>
    /\ UNCHANGED chunkOthers

\* lines 56-58: the last chunk is closed when it has a sentence
CkReturn ==
    /\ ck_pc = "loop"
    /\ ~(row_idx < Len(ck_sentences))
    /\ ck_acc' = [ck_acc EXCEPT !.chunks =
                     IF ck_acc.chunk # <<>>
                     THEN Append(@, <<Len(@), ck_acc.chunk>>) ELSE @]
    /\ ck_pc' = "returned"
    /\ UNCHANGED <<ck_sentences, ck_size, ck_max, row_idx>>
    /\ UNCHANGED chunkOthers

NextChunk == CkClose \/ CkExtend \/ CkReturn

SpecChunks == InitChunk /\ [][NextChunk]_vars

(***************************************************************************)
(* parallel_split_sentences (core/_3_2_split_meaning.py), one pass         *)
(*                                                                         *)
(* Times are in units of 0.0001 s, so that round(x, 3) has something to    *)
(* round; the float arithmetic of lines 175-187 is done in exact           *)
(* fractions.  A text is known by its length.                              *)
(***************************************************************************)
\* bound: the number of rows of the pass
MaxItems == 2
\* bound: the number of lines of a split result
MaxParts == 3

\* item['start'] and the length of the window
MsStarts == {0, 12345}
MsDurations == {33337}
\* len(line) of a line of a split result
LineLens == {1, 3}

\* a row with its window, and a row of a table without the start and end
\* columns; long says that len(tokens) > max_length
MsItems ==
    [text : {[len |-> 12]}, speaker_id : {"SPEAKER_00"}, long : BOOLEAN,
     start : MsStarts, end : { a + d : a \in MsStarts, d \in MsDurations }]
    \cup [text : {[len |-> 12]}, speaker_id : {"SPEAKER_00"}, long : BOOLEAN]

MsTables ==
    UNION { { t \in [1..n -> MsItems] :
                \A k \in 1..n : "start" \in DOMAIN t[k] => t[k].end - t[k].start \in MsDurations }
            : n \in 1..MaxItems }

\* split_lines of line 161: the non-empty lines of a split result
SplitLines == UNION { [1..n -> LineLens] : n \in 0..MaxParts }

\* round(num / den, 3) for num / den >= 0 in units of 0.0001 s: the nearest
\* multiple of 10, the even one of two equally near
round3(num, den) ==
    LET q == num \div (10 * den)
        r == num - q * 10 * den
    IN  IF 2 * r < 10 * den THEN 10 * q
        ELSE IF 2 * r > 10 * den THEN 10 * (q + 1)
        ELSE IF q % 2 = 0 THEN 10 * q ELSE 10 * (q + 1)

\* a share of the duration that does not look at the length of the line
line_duration_equal(lines, j, duration) == [num |-> duration, den |-> Len(lines)]

\* line 180: (len(line) / total_len) * duration, as the fraction num / den
line_duration(lines, j, duration) == [num |-> lines[j] * duration, den |-> SumSeq(lines)]

\* lines 176, 187: current_start before line j, as a fraction over total_len
RECURSIVE current_start(_, _, _)
current_start(item, lines, j) ==
    IF j = 1 THEN [num |-> item.start * SumSeq(lines) * Len(lines),
                   den |-> SumSeq(lines) * Len(lines)]
    ELSE LET c == current_start(item, lines, j - 1)
             d == line_duration(lines, j - 1, item.end - item.start)
         IN  [num |-> c.num + d.num * (c.den \div d.den), den |-> c.den]

\* lines 181-186: the record of line j
SplitRecord(item, lines, j) ==
    LET c == current_start(item, lines, j)
        d == line_duration(lines, j, item.end - item.start)
    IN  [text       |-> [len |-> lines[j]],
         start      |-> round3(c.num, c.den),
         end        |-> round3(c.num + d.num * (c.den \div d.den), c.den),
         speaker_id |-> item.speaker_id]

\* lines 161-187: the records that replace item for a split result
SplitRecords(item, lines) ==
    IF Len(lines) <= 1
    THEN << [text       |-> IF lines # <<>> THEN [len |-> lines[1]] ELSE item.text,
             start      |-> item.start,
             end        |-> item.end,
             speaker_id |-> item.speaker_id] >>
    ELSE [j \in 1..Len(lines) |-> SplitRecord(item, lines, j)]

\* the rows of to_split, lines 140-148
LongRows(t) == { k \in 1..Len(t) : t[k].long }

InitMs ==
    /\ ms_sentences \in MsTables
    /\ to_split = <<>>
    /\ new_sentences_data = [k \in 1..Len(ms_sentences) |-> <<>>]
    /\ ms_pc = "scan"
    /\ IdleSrt /\ IdleAudio /\ IdleGpt /\ IdleTa /\ IdleTrim /\ IdleChunk /\ IdleSub /\ IdleNlp /\ IdleBs /\ IdleMk

\* lines 135-152: every row has the fields it is asked for
MsScan ==
    /\ ms_pc = "scan"
    /\ \A k \in LongRows(ms_sentences) : {"start", "end"} \subseteq DOMAIN ms_sentences[k]
    /\ to_split' = SortedKeys(LongRows(ms_sentences))
    /\ new_sentences_data' =
          [k \in 1..Len(ms_sentences) |->
              IF ms_sentences[k].long THEN <<>> ELSE <<ms_sentences[k]>>]
    /\ ms_pc' = "batch"
    /\ UNCHANGED ms_sentences
    /\ UNCHANGED msOthers

\* lines 146-147: item['start'] of a row that has no such key: KeyError
MsScanRaises ==
    /\ ms_pc = "scan"
    /\ \E k \in LongRows(ms_sentences) : ~({"start", "end"} \subseteq DOMAIN ms_sentences[k])
    /\ ms_pc' = "raised"
    /\ UNCHANGED <<ms_sentences, to_split, new_sentences_data>>
    /\ UNCHANGED msOthers

\* lines 156-158, 92-96: batch_split_sentences returns {}
MsBatchFails ==
    /\ ms_pc = "batch"
    /\ to_split # <<>>
    /\ ms_pc' = "fill"
    /\ UNCHANGED <<ms_sentences, to_split, new_sentences_data>>
    /\ UNCHANGED msOthers

\* lines 156-187: batch_split_sentences returns a split result for every
\* row of the batch
MsBatchSplits ==
    /\ ms_pc = "batch"
    /\ to_split # <<>>
    /\ \E res \in [LongRows(ms_sentences) -> SplitLines] :
          new_sentences_data' =
             [k \in 1..Len(ms_sentences) |->
                 IF k \in DOMAIN res THEN SplitRecords(ms_sentences[k], res[k])
                 ELSE new_sentences_data[k]]
    /\ ms_pc' = "fill"
    /\ UNCHANGED <<ms_sentences, to_split>>
    /\ UNCHANGED msOthers

\* line 156: nothing to split
MsNoBatch ==
    /\ ms_pc = "batch"
    /\ to_split = <<>>
    /\ ms_pc' = "fill"
    /\ UNCHANGED <<ms_sentences, to_split, new_sentences_data>>
    /\ UNCHANGED msOthers

\* lines 189-194
MsFill ==
    /\ ms_pc = "fill"
    /\ new_sentences_data' =
          [k \in 1..Len(ms_sentences) |->
              IF new_sentences_data[k] = <<>> THEN <<ms_sentences[k]>>
              ELSE new_sentences_data[k]]
    /\ ms_pc' = "returned"
    /\ UNCHANGED <<ms_sentences, to_split>>
    /\ UNCHANGED msOthers

NextMs == MsScan \/ MsScanRaises \/ MsBatchFails \/ MsBatchSplits \/ MsNoBatch \/ MsFill

SpecMeaning == InitMs /\ [][NextMs]_vars

(***************************************************************************)
(* split_for_sub_main, split_align_subs (core/_5_split_sub.py)             *)
(*                                                                         *)
(* A text is a sequence of characters; a character stands for its class:   *)
(* "a" a Latin letter, "k" a CJK ideograph, "h" a Hangul syllable, " " a   *)
(* blank.  calc_len is kept in quarters so that 1.75 and 1.5 are exact.    *)
(***************************************************************************)
MaxSubLines == 2

SubSpeakers == {"S0"}

\* df['Source'] and df['Translation'] cells
SubSources == { <<"a", "a", "a">>, <<"a", "a", "a", "a">> }
SubTranslations == { <<"k">>, <<"k", "a">> }

\* load_key("subtitle"): max_length, and target_multiplier as num / den
SubtitleSets == { [max_length |-> 3, target_multiplier |-> [num |-> 6, den |-> 5]] }

\* get_joiner(language)
Joiners == { <<>>, <<" ">> }

SubTables ==
    UNION { { [src |-> s, trans |-> t, speaker_ids |-> sp] :
                 s \in [1..n -> SubSources], t \in [1..n -> SubTranslations],
                 sp \in {NoSpeakers} \cup
                        { [some |-> TRUE, ids |-> [k \in 1..n |-> x]] : x \in SubSpeakers } } :
            n \in 1..MaxSubLines }

\* lines 18-29: char_weight, in quarters
char_weight(char) ==
    IF char = "k" THEN 7
    ELSE IF char = "h" THEN 6
    ELSE 4

\* lines 16-31, in quarters
RECURSIVE calc_len(_)
calc_len(text) ==
    IF text = <<>> THEN 0 ELSE char_weight(Head(text)) + calc_len(Tail(text))

\* a flag test that also flags a line of exactly the greatest length
needs_split_at_limit(set, src, tr) ==
    \/ Len(src) >= set.max_length
    \/ calc_len(tr) * set.target_multiplier.num >= 4 * set.max_length * set.target_multiplier.den

\* line 76: len(src) > MAX_SUB_LENGTH or
\* calc_len(tr) * TARGET_SUB_MULTIPLIER > MAX_SUB_LENGTH
needs_split(set, src, tr) ==
    \/ Len(src) > set.max_length
    \/ calc_len(tr) * set.target_multiplier.num > 4 * set.max_length * set.target_multiplier.den

\* a cell of src_lines, tr_lines or remerged_tr_lines: a string (one part,
\* list FALSE) or a list of strings
StrCell(text) == [list |-> FALSE, parts |-> <<text>>]
ListCell(ps) == [list |-> TRUE, parts |-> ps]

\* lines 104-116: items = sublist if isinstance(sublist, list) else [sublist]
RECURSIVE FlattenCells(_)
FlattenCells(cells) ==
    IF cells = <<>> THEN <<>> ELSE Head(cells).parts \o FlattenCells(Tail(cells))

\* lines 108-112: [speaker_ids[i]] * len(items)
RECURSIVE FlattenSpeakers(_, _)
FlattenSpeakers(cells, ids) ==
    IF cells = <<>> THEN <<>>
    ELSE [k \in 1..Len(Head(cells).parts) |-> Head(ids)]
            \o FlattenSpeakers(Tail(cells), Tail(ids))

\* line 56: joiner.join(tr_parts)
RECURSIVE join(_, _)
join(joiner, ps) ==
    IF ps = <<>> THEN <<>>
    ELSE IF Len(ps) = 1 THEN ps[1]
    ELSE ps[1] \o joiner \o join(joiner, Tail(ps))

\* what the service makes of one flagged line: it cuts source and translation
\* near the middle, it leaves the sentence whole (lines 34-37 of
\* split_sentence, or an answer without [br]), or the alignment raises
Choices == {"cut", "whole", "raise"}

\* split_sentence(src, num_parts=2).strip().split('\n'), lines 88 and 36
SrcSplit(src, choice) ==
    IF choice = "whole" \/ Len(src) < 2 THEN <<src>>
    ELSE << SubSeq(src, 1, Len(src) \div 2), SubSeq(src, Len(src) \div 2 + 1, Len(src)) >>

\* line 51: the target parts, as many as the source parts (line 42)
TrSplit(tr, n) ==
    LET k == Len(tr) \div 2
    IN  IF n = 1 THEN << strip(tr) >>
        ELSE << strip(SubSeq(tr, 1, k)), strip(SubSeq(tr, k + 1, Len(tr))) >>

\* lines 86-98: process(i) on the cells of line i
process(joiner, src, tr, choice) ==
    IF choice = "raise"
    THEN \* lines 93-98: remerged_tr_lines[i] is given tr_lines[i] after line 97
         \* made it a list
         [src |-> ListCell(<<src>>), tr |-> ListCell(<<tr>>), remerged |-> ListCell(<<tr>>)]
    ELSE LET src_parts == SrcSplit(src, choice)
             tr_parts == TrSplit(tr, Len(src_parts))
         IN  [src |-> ListCell(src_parts), tr |-> ListCell(tr_parts),
              remerged |-> StrCell(join(joiner, tr_parts))]

\* lines 73-77
ToSplit(set, src, tr) ==
    { k \in 1..Min(Len(src), Len(tr)) : needs_split(set, src[k], tr[k]) }

\* lines 123-130; origin is history: for every line of src, the row of the
\* table read that its text comes from
InitSub ==
    /\ \E t \in SubTables :
          /\ sub_in = [src |-> t.src, trans |-> t.trans,
                       speaker_ids |-> t.speaker_ids, attempt |-> 0,
                       origin |-> [k \in 1..Len(t.src) |-> k]]
          /\ sub_main = sub_in
    /\ sub_set \in SubtitleSets
    /\ sub_joiner \in Joiners
    /\ sub_scan = NoScan
    /\ sub_ret = NoReturn
    /\ sub_requests = 0
    /\ sub_scans = 0
    /\ sub_out = <<>>
    /\ sub_pc = "loop"
    /\ IdleSrt /\ IdleAudio /\ IdleGpt /\ IdleTa /\ IdleTrim /\ IdleChunk /\ IdleMs /\ IdleNlp /\ IdleBs /\ IdleMk

\* line 134 `speaker_ids.copy() if speaker_ids else None`
CopyOrNone(sp) == IF sp.some /\ sp.ids # <<>> THEN sp ELSE NoSpeakers

\* lines 67-83: the call of split_align_subs and its scan for long lines
EnterScan(caller) ==
    [src_lines |-> [k \in 1..Len(sub_main.src) |-> StrCell(sub_main.src[k])],
     tr_lines |-> [k \in 1..Len(sub_main.trans) |-> StrCell(sub_main.trans[k])],
     remerged_tr_lines |-> [k \in 1..Len(sub_main.trans) |-> StrCell(sub_main.trans[k])],
     speaker_ids |-> CopyOrNone(sub_main.speaker_ids),
     to_split |-> ToSplit(sub_set, sub_main.src, sub_main.trans),
     caller |-> caller]

\* lines 132-134: one more attempt of the loop
SubAttempt ==
    /\ sub_pc = "loop"
    /\ sub_main.attempt < 3
    /\ sub_scan' = EnterScan("loop")
    /\ sub_scans' = sub_scans + 1
    /\ sub_pc' = "scan"
    /\ UNCHANGED <<sub_in, sub_set, sub_joiner, sub_main, sub_ret, sub_requests, sub_out>>
    /\ UNCHANGED subOthers

\* lines 100-101: the pool runs process(i) for every flagged line; each
\* sends a split request and an alignment request
SubProcess ==
    /\ sub_pc = "scan"
    /\ \E choice \in [sub_scan.to_split -> Choices] :
          LET done(k) == process(sub_joiner, sub_scan.src_lines[k].parts[1],
                                 sub_scan.tr_lines[k].parts[1], choice[k])
              flagged(k) == k \in sub_scan.to_split
          IN  sub_scan' = [sub_scan EXCEPT
                 !.src_lines = [k \in DOMAIN @ |-> IF flagged(k) THEN done(k).src ELSE @[k]],
                 !.tr_lines = [k \in DOMAIN @ |-> IF flagged(k) THEN done(k).tr ELSE @[k]],
                 !.remerged_tr_lines =
                     [k \in DOMAIN @ |-> IF flagged(k) THEN done(k).remerged ELSE @[k]]]
    /\ sub_requests' = sub_requests + 2 * Cardinality(sub_scan.to_split)
    /\ sub_pc' = "flatten"
    /\ UNCHANGED <<sub_in, sub_set, sub_joiner, sub_main, sub_ret, sub_scans, sub_out>>
    /\ UNCHANGED subOthers

\* lines 103-118: the lists are flattened and returned
SubScanReturns ==
    /\ sub_pc = "flatten"
    /\ sub_ret' =
          [split_src |-> FlattenCells(sub_scan.src_lines),
           split_trans |-> FlattenCells(sub_scan.tr_lines),
           remerged |-> sub_scan.remerged_tr_lines,
           split_speaker_ids |->
              IF sub_scan.speaker_ids.some
              THEN [some |-> TRUE,
                    ids |-> FlattenSpeakers(sub_scan.src_lines, sub_scan.speaker_ids.ids)]
              ELSE NoSpeakers,
           origin |-> FlattenSpeakers(sub_scan.src_lines, sub_main.origin),
           rem_origin |-> sub_main.origin]
    /\ sub_scan' = NoScan
    /\ sub_pc' = IF sub_scan.caller = "loop" THEN "check" ELSE "pad"
    /\ UNCHANGED <<sub_in, sub_set, sub_joiner, sub_main, sub_requests, sub_scans, sub_out>>
    /\ UNCHANGED subOthers

\* lines 137-138
AllFit(set, src, trans) ==
    /\ \A k \in 1..Len(src) : Len(src[k]) <= set.max_length
    /\ \A k \in 1..Len(trans) :
          calc_len(trans[k]) * set.target_multiplier.num
             <= 4 * set.max_length * set.target_multiplier.den

\* lines 137-139: break, src and trans keep the value they had before the scan
SubBreak ==
    /\ sub_pc = "check"
    /\ AllFit(sub_set, sub_ret.split_src, sub_ret.split_trans)
    /\ sub_pc' = "final"
    /\ UNCHANGED <<sub_in, sub_set, sub_joiner, sub_main, sub_scan, sub_ret, sub_requests,
                   sub_scans, sub_out>>
    /\ UNCHANGED subOthers

\* lines 137-142: the next round works on the result of this one
SubContinue ==
    /\ sub_pc = "check"
    /\ ~AllFit(sub_set, sub_ret.split_src, sub_ret.split_trans)
    /\ sub_main' = [src |-> sub_ret.split_src, trans |-> sub_ret.split_trans,
                    speaker_ids |-> sub_ret.split_speaker_ids,
                    attempt |-> sub_main.attempt + 1,
                    origin |-> sub_ret.origin]
    /\ sub_pc' = "loop"
    /\ UNCHANGED <<sub_in, sub_set, sub_joiner, sub_scan, sub_ret, sub_requests, sub_scans,
                   sub_out>>
    /\ UNCHANGED subOthers

\* line 132: range(3) is used up
SubLoopEnds ==
    /\ sub_pc = "loop"
    /\ sub_main.attempt >= 3
    /\ sub_pc' = "final"
    /\ UNCHANGED <<sub_in, sub_set, sub_joiner, sub_main, sub_scan, sub_ret, sub_requests,
                   sub_scans, sub_out>>
    /\ UNCHANGED subOthers

\* line 147: the call after the loop
SubFinalScan ==
    /\ sub_pc = "final"
    /\ sub_scan' = EnterScan("final")
    /\ sub_scans' = sub_scans + 1
    /\ sub_pc' = "scan"
    /\ UNCHANGED <<sub_in, sub_set, sub_joiner, sub_main, sub_ret, sub_requests, sub_out>>
    /\ UNCHANGED subOthers

\* lines 155-161: seq + [fill] * (max_len - len(seq))
PadTo(s, n, fill) == s \o [k \in 1..(n - Len(s)) |-> fill]

\* lines 150-169: the four sequences are padded to one length and written
SubWrite ==
    /\ sub_pc = "pad"
    /\ LET truthy == sub_ret.split_speaker_ids.some /\ sub_ret.split_speaker_ids.ids # <<>>
           m0 == Max(Len(sub_ret.split_src), Max(Len(sub_ret.split_trans), Len(sub_ret.remerged)))
           max_len == IF truthy THEN Max(m0, Len(sub_ret.split_speaker_ids.ids)) ELSE m0
       IN  sub_out' =
              << [Source |-> PadTo(sub_ret.split_src, max_len, <<>>),
                  Translation |-> PadTo(sub_ret.split_trans, max_len, <<>>),
                  Remerged |-> PadTo(sub_ret.remerged, max_len, StrCell(<<>>)),
                  speaker_id |->
                     IF truthy
                     THEN [some |-> TRUE,
                           ids |-> PadTo(sub_ret.split_speaker_ids.ids, max_len, "None")]
                     ELSE NoSpeakers,
                  src_origin |-> PadTo(sub_ret.origin, max_len, 0),
                  rem_origin |-> PadTo(sub_ret.rem_origin, max_len, 0)] >>
    /\ sub_pc' = "done"
    /\ UNCHANGED <<sub_in, sub_set, sub_joiner, sub_main, sub_scan, sub_ret, sub_requests,
                   sub_scans>>
    /\ UNCHANGED subOthers

NextSub ==
    \/ SubAttempt
    \/ SubProcess
    \/ SubScanReturns
    \/ SubBreak
    \/ SubContinue
    \/ SubLoopEnds
    \/ SubFinalScan
    \/ SubWrite

SpecSub == InitSub /\ [][NextSub]_vars

(***************************************************************************)
(* split_by_comma_main, split_sentences_main, split_long_by_root_main      *)
(* (core/spacy_utils)                                                      *)
(*                                                                         *)
(* A text is a sequence of pieces: "w" a word of five letters, "but" and   *)
(* "and" the connector words, "," a comma, "!" an exclamation mark, " " a  *)
(* blank.  nlp(text) makes a token of every piece that is not a blank and  *)
(* keeps, as spaCy does, the offset of the token in the text.              *)
(***************************************************************************)
MaxNlRows == 2

\* len() of a piece
PieceLen(piece) ==
    IF piece = "w" THEN 5
    ELSE IF piece \in {"but", "and"} THEN 3
    ELSE 1

\* len(text)
RECURSIVE TextLen(_)
TextLen(text) == IF text = <<>> THEN 0 ELSE PieceLen(Head(text)) + TextLen(Tail(text))

\* n words, a blank after each
RECURSIVE Words(_)
Words(n) == IF n = 0 THEN <<>> ELSE <<"w", " ">> \o Words(n - 1)

\* row['text'] of SPLIT_BY_MARK_FILE: a short sentence, sentences of over 60
\* characters with a comma (followed by a blank or not) or a connector, and
\* sentences of over 40 tokens, one of them with a comma near its start, and
\* a sentence that is an exclamation mark only (split_by_mark merges only
\* ',', '.' and the full-width marks into the sentence before)
NlTexts ==
    { Words(3) \o <<"w">>,
      <<"!">>,
      Words(5) \o <<"w", ",", " ">> \o Words(5) \o <<"w">>,
      Words(5) \o <<"w", ",">> \o Words(5) \o <<"w">>,
      Words(6) \o <<"but", " ">> \o Words(6) \o <<"w">>,
      Words(41) \o <<"w">>,
      <<"w", ",", " ">> \o Words(41) \o <<"w">> }

\* the window of a row, in units of 0.0001 s
NlWindows == { [start |-> 12345, end |-> 45682] }

NlRows ==
    { [text |-> t, start |-> w.start, end |-> w.end, speaker_id |-> "SPEAKER_00"] :
         t \in NlTexts, w \in NlWindows }

NlTables == UNION { [1..n -> NlRows] : n \in 1..MaxNlRows }

\* nlp(text): the places of the tokens in the text
TokenPlaces(text) == SortedKeys({ p \in 1..Len(text) : text[p] # " " })

\* token.idx of the token at place p
idx(text, p) == TextLen(SubSeq(text, 1, p - 1))

\* [t.text for t in doc]
tokens(text) == LET ps == TokenPlaces(text) IN [k \in 1..Len(ps) |-> text[ps[k]]]

\* lines 12-16 of split_by_comma: the places of the commas to cut after
CutPlaces(text) ==
    { p \in 1..Len(text) :
         /\ text[p] = ","
         /\ idx(text, p) > 10
         /\ TextLen(text) - idx(text, p) > 10 }

\* lines 10-16 of split_by_comma: text[last_idx:token.idx+1].strip() for
\* every cut, then text[last_idx:].strip()
RECURSIVE CommaParts(_, _, _)
CommaParts(text, cuts, last) ==
    IF cuts = <<>> THEN << strip(SubSeq(text, last + 1, Len(text))) >>
    ELSE << strip(SubSeq(text, last + 1, Head(cuts))) >>
            \o CommaParts(text, Tail(cuts), Head(cuts))

\* [p for p in parts if p]
NonEmpty(parts) == SelectSeq(parts, LAMBDA p : p # <<>>)

\* split_by_comma(text, nlp, max_length=60)
split_by_comma(text) ==
    IF TextLen(text) <= 60 THEN <<text>>
    ELSE NonEmpty(CommaParts(text, SortedKeys(CutPlaces(text)), 0))

\* CONNECTORS, in the order of the list; the blanks around each are part of it
CONNECTORS == << "but", "and" >>

\* text.split(connector, 1): the place of the first ' connector ' in text, 0
\* when there is none
Find(text, connector) ==
    LET at == { p \in 2..(Len(text) - 1) :
                  text[p] = connector /\ text[p - 1] = " " /\ text[p + 1] = " " }
    IN  IF at = {} THEN 0 ELSE CHOOSE p \in at : \A q \in at : p <= q

\* lines 11-15 of split_by_connectors, from the c-th connector on
RECURSIVE ByConnector(_, _)
ByConnector(text, c) ==
    IF c > Len(CONNECTORS) THEN <<text>>
    ELSE LET p == Find(text, CONNECTORS[c])
         IN  IF p = 0 THEN ByConnector(text, c + 1)
             ELSE << strip(SubSeq(text, 1, p - 2)),
                     <<CONNECTORS[c], " ">> \o strip(SubSeq(text, p + 2, Len(text))) >>

\* split_by_connectors(text, nlp, max_length=60)
split_by_connectors(text) ==
    IF TextLen(text) <= 60 THEN <<text>> ELSE ByConnector(text, 1)

\* split_long_sentence(doc) when the parser gives the token of index root
\* (0-based) as the root
split_long_sentence(text, root) ==
    LET ps == TokenPlaces(text)
    IN  IF root > 0 /\ root < Len(ps) - 1
        THEN << strip(SubSeq(text, 1, ps[root])), strip(SubSeq(text, ps[root + 1], Len(text))) >>
        ELSE <<text>>

\* " ".join(tokens)
RECURSIVE JoinBlank(_)
JoinBlank(ts) ==
    IF ts = <<>> THEN <<>>
    ELSE IF Len(ts) = 1 THEN ts
    ELSE <<ts[1], " ">> \o JoinBlank(Tail(ts))

\* split_extremely_long_sentence(doc, max_tokens=30)
split_extremely_long_sentence(text) ==
    LET ts == tokens(text)
    IN  IF Len(ts) <= 30 THEN <<text>>
        ELSE << JoinBlank(SubSeq(ts, 1, 30)), JoinBlank(SubSeq(ts, 31, Len(ts))) >>

\* the index the parser can give for the root of a sentence of n tokens
Roots(n) == {0, 1, n \div 2, n - 1}

\* lines 39-50 of split_by_comma.py and of split_by_connector.py: the rows
\* that replace row for the parts of its text
Interpolate(row, parts) ==
    IF Len(parts) <= 1 THEN <<row>>
    ELSE LET lens == [j \in 1..Len(parts) |-> TextLen(parts[j])]
         IN  [j \in 1..Len(parts) |-> [SplitRecord(row, lens, j) EXCEPT !.text = parts[j]]]

\* the loop over the rows, from the k-th on; split_sentences[k] is what the
\* splitter returned for the text of row k
RECURSIVE InterpolateAll(_, _, _)
InterpolateAll(rows, split_sentences, k) ==
    IF k > Len(rows) THEN <<>>
    ELSE Interpolate(rows[k], split_sentences[k])
            \o InterpolateAll(rows, split_sentences, k + 1)

\* the cuts a stage made: the text it was given and the parts it returned
CutsOf(rows, split_sentences, by) ==
    { [by |-> by, text |-> rows[k].text, parts |-> split_sentences[k]] : k \in 1..Len(rows) }

InitNlp ==
    /\ nl_rows \in NlTables
    /\ nl_joiner \in Joiners
    /\ nl_all = <<>>
    /\ nl_idx = 0
    /\ nl_cuts = {}
    /\ nl_pc = "comma"
    /\ IdleSrt /\ IdleAudio /\ IdleGpt /\ IdleTa /\ IdleTrim /\ IdleChunk /\ IdleMs /\ IdleSub /\ IdleBs /\ IdleMk

\* split_by_comma_main
NlComma ==
    /\ nl_pc = "comma"
    /\ LET split_sentences == [k \in 1..Len(nl_rows) |-> split_by_comma(strip(nl_rows[k].text))]
       IN  /\ nl_rows' = InterpolateAll(nl_rows, split_sentences, 1)
           /\ nl_cuts' = nl_cuts \cup CutsOf(nl_rows, split_sentences, "split_by_comma")
    /\ nl_pc' = "connector"
    /\ UNCHANGED <<nl_joiner, nl_all, nl_idx>>
    /\ UNCHANGED nlpOthers

\* split_sentences_main of split_by_connector.py
NlConnector ==
    /\ nl_pc = "connector"
    /\ LET split_sentences ==
              [k \in 1..Len(nl_rows) |-> split_by_connectors(strip(nl_rows[k].text))]
       IN  /\ nl_rows' = InterpolateAll(nl_rows, split_sentences, 1)
           /\ nl_cuts' = nl_cuts \cup CutsOf(nl_rows, split_sentences, "split_by_connectors")
    /\ nl_pc' = "root"
    /\ UNCHANGED <<nl_joiner, nl_all, nl_idx>>
    /\ UNCHANGED nlpOthers

\* split_long_by_root_main lines 28-37: a row of over 40 tokens
NlRootSplits ==
    /\ nl_pc = "root"
    /\ nl_idx < Len(nl_rows)
    /\ LET row == nl_rows[nl_idx + 1]
           sentence == strip(row.text)
       IN  /\ Len(tokens(sentence)) > 40
           /\ \E root \in Roots(Len(tokens(sentence))) :
                LET halves == split_long_sentence(sentence, root)
                    again == \E j \in 1..Len(halves) : Len(tokens(halves[j])) > 40
                    split_sentences ==
                       IF ~again THEN halves
                       ELSE IF Len(halves) = 1 THEN split_extremely_long_sentence(halves[1])
                       ELSE split_extremely_long_sentence(halves[1])
                               \o split_extremely_long_sentence(halves[2])
                IN  /\ nl_all' = nl_all \o
                          [j \in 1..Len(split_sentences) |->
                              [text |-> split_sentences[j], speaker_id |-> row.speaker_id]]
                    /\ nl_cuts' = nl_cuts
                          \cup { [by |-> "split_long_sentence", text |-> sentence,
                                  parts |-> halves] }
                          \cup { [by |-> "split_extremely_long_sentence", text |-> halves[j],
                                  parts |-> split_extremely_long_sentence(halves[j])] :
                                 j \in { x \in 1..Len(halves) : again } }
    /\ nl_idx' = nl_idx + 1
    /\ UNCHANGED <<nl_rows, nl_joiner, nl_pc>>
    /\ UNCHANGED nlpOthers

\* split_long_by_root_main lines 39-40: a row of at most 40 tokens
NlRootKeeps ==
    /\ nl_pc = "root"
    /\ nl_idx < Len(nl_rows)
    /\ LET row == nl_rows[nl_idx + 1]
           sentence == strip(row.text)
       IN  /\ Len(tokens(sentence)) <= 40
           /\ nl_all' = nl_all \o << [text |-> sentence, speaker_id |-> row.speaker_id] >>
    /\ nl_idx' = nl_idx + 1
    /\ UNCHANGED <<nl_rows, nl_joiner, nl_cuts, nl_pc>>
    /\ UNCHANGED nlpOthers

\* line 49: the sentence is empty or made of punctuation only
OnlyPunctuation(sentence) ==
    \A p \in 1..Len(strip(sentence)) : strip(sentence)[p] \in {",", "!"}

\* lines 44-54: final_results after the items from the k-th on
RECURSIVE final_results(_, _, _)
final_results(items, k, acc) ==
    IF k > Len(items) THEN acc
    ELSE IF OnlyPunctuation(items[k].text)
         THEN IF k > 1 /\ acc # <<>>
              THEN final_results(items, k + 1,
                      [acc EXCEPT ![Len(acc)].text = @ \o items[k].text])
              ELSE final_results(items, k + 1, acc)
    ELSE final_results(items, k + 1,
            Append(acc, [text |-> items[k].text, speaker_id |-> items[k].speaker_id]))

\* line 52 with an empty final_results: IndexError
FilterRaises(items) ==
    \E k \in 2..Len(items) :
       /\ OnlyPunctuation(items[k].text)
       /\ \A j \in 1..(k - 1) : OnlyPunctuation(items[j].text)

\* split_long_by_root_main lines 42-57: the table written to _3_1_SPLIT_BY_NLP
NlWrite ==
    /\ nl_pc = "root"
    /\ nl_idx = Len(nl_rows)
    /\ IF FilterRaises(nl_all)
       THEN nl_pc' = "raised" /\ UNCHANGED nl_rows
       ELSE nl_pc' = "written" /\ nl_rows' = final_results(nl_all, 1, <<>>)
    /\ UNCHANGED <<nl_joiner, nl_all, nl_idx, nl_cuts>>
    /\ UNCHANGED nlpOthers

NextNlp == NlComma \/ NlConnector \/ NlRootSplits \/ NlRootKeeps \/ NlWrite

SpecNlp == InitNlp /\ [][NextNlp]_vars

(***************************************************************************)
(* batch_split_sentences, find_split_positions and the batch loop of       *)
(* parallel_split_sentences (core/_3_2_split_meaning.py), one pass         *)
(*                                                                         *)
(* A text is a sequence of characters; the delimiter "[br]" of a text of   *)
(* the service is one element.  One action is one batch: what ask_gpt ends *)
(* with after the retries of its except_handler wrapper (a response that   *)
(* passed valid_batch_split, or an exception), and everything              *)
(* batch_split_sentences and parallel_split_sentences do with it.          *)
(***************************************************************************)
\* bound: the number of rows of the pass
MaxBsRows == 6

\* line 155
batch_size == 5

\* load_key("max_split_length"), in tokens; a token is a word here
max_split_length == 1

BsTextA == <<"a", "b", " ", "c", "d">>
BsTextB == <<"a", "a", " ", "a">>
BsTextShort == <<"a", "b">>

\* row k (1-based) of the table
BsRow(kind, k) ==
    [text       |-> IF kind = "B" THEN BsTextB
                    ELSE IF kind = "short" THEN BsTextShort ELSE BsTextA,
     speaker_id |-> IF kind = "B" THEN "SPEAKER_01" ELSE "SPEAKER_00",
     start      |-> 40000 * (k - 1),
     end        |-> 40000 * (k - 1) + 33337]

\* the tables of long rows of one speaker, of which at most one row is of
\* another speaker or short
BsTables ==
    UNION { { [k \in 1..n |-> BsRow(IF k = x THEN kind ELSE "A", k)] :
                x \in 0..n, kind \in {"B", "short"} } : n \in 1..MaxBsRows }

\* str.split(sep) for a one-element separator
RECURSIVE SplitOn(_, _)
SplitOn(text, sep) ==
    IF \A k \in 1..Len(text) : text[k] # sep THEN <<text>>
    ELSE LET p == CHOOSE k \in 1..Len(text) :
                     text[k] = sep /\ \A m \in 1..(k - 1) : text[m] # sep
         IN  <<SubSeq(text, 1, p - 1)>> \o SplitOn(SubSeq(text, p + 1, Len(text)), sep)

IsSpace(c) == c \in {" ", "\n"}

\* str.split(): the words between runs of white space
str_split(text) ==
    SelectSeq(SplitOn([k \in 1..Len(text) |-> IF IsSpace(text[k]) THEN " " ELSE text[k]], " "),
              LAMBDA w : w # <<>>)

\* str.strip(): white space of both kinds
RECURSIVE strip_ws(_)
strip_ws(text) ==
    IF text # <<>> /\ IsSpace(text[1]) THEN strip_ws(Tail(text))
    ELSE IF text # <<>> /\ IsSpace(text[Len(text)]) THEN strip_ws(SubSeq(text, 1, Len(text) - 1))
    ELSE text

\* line 138-140: len(tokens) > max_length
IsLong(item) == Len(str_split(item.text)) > max_split_length

\* ---- difflib.SequenceMatcher(None, a, b).ratio() for texts of fewer than
\* 200 characters (no junk, no popular characters)
\* find_longest_match: the longest block a[i..i+k-1] = b[j..j+k-1], of those
\* the one that starts earliest in a, of those the one earliest in b
LongestBlock(a, b) ==
    LET blocks == { c \in (1..Len(a)) \X (1..Len(b)) \X (1..Min(Len(a), Len(b))) :
                      /\ c[1] + c[3] - 1 <= Len(a)
                      /\ c[2] + c[3] - 1 <= Len(b)
                      /\ SubSeq(a, c[1], c[1] + c[3] - 1) = SubSeq(b, c[2], c[2] + c[3] - 1) }
    IN  IF blocks = {} THEN <<1, 1, 0>>
        ELSE CHOOSE c \in blocks :
                \A d \in blocks :
                    \/ c[3] > d[3]
                    \/ c[3] = d[3] /\ c[1] < d[1]
                    \/ c[3] = d[3] /\ c[1] = d[1] /\ c[2] <= d[2]

\* get_matching_blocks: the sum of the sizes of the blocks
RECURSIVE Matched(_, _)
Matched(a, b) ==
    IF a = <<>> \/ b = <<>> THEN 0
    ELSE LET m == LongestBlock(a, b) IN
         IF m[3] = 0 THEN 0
         ELSE m[3] + Matched(SubSeq(a, 1, m[1] - 1), SubSeq(b, 1, m[2] - 1))
                   + Matched(SubSeq(a, m[1] + m[3], Len(a)), SubSeq(b, m[2] + m[3], Len(b)))

\* ratio(): 2.0 * matches / length, 1.0 for two empty texts; as a fraction
ratio(a, b) ==
    IF Len(a) + Len(b) = 0 THEN [num |-> 1, den |-> 1]
    ELSE [num |-> 2 * Matched(a, b), den |-> Len(a) + Len(b)]

\* best_split of line 53
None == -1

\* lines 55-63: the scan of j from start; positions are 0-based as in the code
RECURSIVE ScanSplit(_, _, _, _, _, _)
ScanSplit(original, start, modified_left, j, max_similarity, best) ==
    IF j >= Len(original) THEN best
    ELSE LET left_similarity == ratio(SubSeq(original, start + 1, j), modified_left) IN
         IF left_similarity.num * max_similarity.den > max_similarity.num * left_similarity.den
         THEN ScanSplit(original, start, modified_left, j + 1, left_similarity, j)
         ELSE ScanSplit(original, start, modified_left, j + 1, max_similarity, best)

\* lines 51-71: the loop over the parts but the last
RECURSIVE PositionsFrom(_, _, _, _, _)
PositionsFrom(original, parts, joiner, n, start) ==
    IF n > Len(parts) - 1 THEN <<>>
    ELSE LET best == ScanSplit(original, start, join(joiner, str_split(parts[n])), start,
                               [num |-> 0, den |-> 1], None)
         IN  IF best # None
             THEN <<best>> \o PositionsFrom(original, parts, joiner, n + 1, best)
             ELSE PositionsFrom(original, parts, joiner, n + 1, start)

\* lines 43-73
find_split_positions(original, modified, joiner) ==
    PositionsFrom(original, SplitOn(modified, "[br]"), joiner, 1, 0)

\* lines 108-115: the sentence cut at split_points[n..]
RECURSIVE CutAt(_, _, _, _)
CutAt(sentence, split_points, n, cut) ==
    IF n > Len(split_points) THEN cut
    ELSE IF n = 1
    THEN CutAt(sentence, split_points, 2,
               SubSeq(sentence, 1, split_points[1]) \o <<"\n">>
                  \o SubSeq(sentence, split_points[1] + 1, Len(sentence)))
    ELSE LET parts == SplitOn(cut, "\n")
             last_part == parts[Len(parts)]
             q == split_points[n] - split_points[n - 1]
         IN  CutAt(sentence, split_points, n + 1,
                   join(<<"\n">>,
                        [parts EXCEPT ![Len(parts)] =
                            SubSeq(last_part, 1, q) \o <<"\n">>
                               \o SubSeq(last_part, q + 1, Len(last_part))]))

\* the text of the service with its delimiters made line breaks, as
\* split_sentence does at line 33
best_split_from_service(sentence, best_split_raw, joiner) ==
    [k \in 1..Len(best_split_raw) |->
        IF best_split_raw[k] = "[br]" THEN "\n" ELSE best_split_raw[k]]

\* lines 102-117
best_split(sentence, best_split_raw, joiner) ==
    CutAt(sentence, find_split_positions(sentence, best_split_raw, joiner), 1, sentence)

\* line 161
split_lines(split_result) ==
    LET lines == SplitOn(strip_ws(split_result), "\n")
    IN  SelectSeq([k \in 1..Len(lines) |-> strip_ws(lines[k])], LAMBDA l : l # <<>>)

\* lines 162-187: the records that replace the row for a split result
BsRecords(item, lines) ==
    IF Len(lines) <= 1
    THEN << [text       |-> IF lines # <<>> THEN lines[1] ELSE item.text,
             start      |-> item.start,
             end        |-> item.end,
             speaker_id |-> item.speaker_id] >>
    ELSE [j \in 1..Len(lines) |->
            [SplitRecord(item, [m \in 1..Len(lines) |-> Len(lines[m])], j)
                EXCEPT !.text = lines[j]]]

\* ---- what the service can answer to the request of a batch
\* the body of a json answer: per key an object that has a "split" or not
InsertBr(s, p) == SubSeq(s, 1, p) \o <<"[br]">> \o SubSeq(s, p + 1, Len(s))

Entry(split) == [has_split |-> TRUE, split |-> split]
NoSplitKey == [has_split |-> FALSE, split |-> <<>>]

GoodEntry(s) == Entry(InsertBr(s, Len(s) \div 2))

\* the objects the service can give for sentence s: the delimiter at any
\* place, no delimiter, two delimiters, a text that is not the sentence's,
\* an empty text, no "split" at all
Entries(s) ==
    { Entry(InsertBr(s, p)) : p \in 0..Len(s) }
    \cup { Entry(s), Entry(<<>>), NoSplitKey,
           Entry(InsertBr(InsertBr(s, 1), Len(s))),
           Entry(<<"x">> \o Tail(InsertBr(s, Len(s) \div 2))),
           Entry(<<"a", " ", "[br]", " ", "c">>),
           Entry(<<"x", "[br]", "y">>) }

\* str(item['index']) of row k (1-based): the key of a JSON object
BsKey(k) == Str(k - 1)

BsKeys(b) == { BsKey(b[n]) : n \in 1..Len(b) }

RowOf(key) == key.str + 1

BsGood(b) == [key \in BsKeys(b) |-> GoodEntry(bs_rows[RowOf(key)].text)]

\* the answers that differ from the good one in one key
BsAnswers(b) ==
    { [kind |-> "429", body |-> <<>>], [kind |-> "error", body |-> <<>>] }
    \cup { [kind |-> "json", body |-> BsGood(b)] }
    \cup { [kind |-> "json", body |-> [key \in BsKeys(b) \cup {BsKey(MaxBsRows + 1)} |->
                                          IF key \in BsKeys(b) THEN BsGood(b)[key]
                                          ELSE GoodEntry(BsTextA)]] }
    \cup UNION { { [kind |-> "json", body |-> [key \in BsKeys(b) \ {x} |-> BsGood(b)[key]]] }
                 \cup { [kind |-> "json", body |-> [BsGood(b) EXCEPT ![x] = e]] :
                          e \in Entries(bs_rows[RowOf(x)].text) } : x \in BsKeys(b) }

\* lines 82-90: status = "success"; the test of line 87 has no effect
valid_batch_split(b, response_data) ==
    \A n \in 1..Len(b) : BsKey(b[n]) \in DOMAIN response_data

\* ask_gpt raises on answer r: lines 120-123 or 136-140 of ask_gpt.py
BsRejected(b, r) == r.kind # "json" \/ ~valid_batch_split(b, r.body)

\* line 102: response_data[idx_str]["split"] of an object without that key
BsKeyError(b, response_data) ==
    \E n \in 1..Len(b) : ~response_data[BsKey(b[n])].has_split

\* lines 135-148: to_split, as row numbers
BsToSplit(rows) == SortedKeys({ k \in 1..Len(rows) : IsLong(rows[k]) })

\* line 157: to_split[i:i + batch_size]
BsBatch(rows, at) ==
    SubSeq(BsToSplit(rows), at + 1, Min(at + batch_size, Len(BsToSplit(rows))))

\* the sentences of a batch for which a response holds no usable split
Unusable(b, response_data) ==
    { b[n] : n \in { m \in 1..Len(b) :
                        \/ ~response_data[BsKey(b[m])].has_split
                        \/ \A p \in 1..Len(response_data[BsKey(b[m])].split) :
                              response_data[BsKey(b[m])].split[p] # "[br]" } }

\* flattening of line 194
RECURSIVE FlattenRows(_)
FlattenRows(lists) ==
    IF lists = <<>> THEN <<>> ELSE Head(lists) \o FlattenRows(Tail(lists))

InitBs ==
    /\ bs_rows \in BsTables
    /\ bs_joiner \in Joiners
    /\ bs_i = 0
    /\ bs_new = [k \in 1..Len(bs_rows) |-> <<>>]
    /\ bs_batch = <<>>
    /\ bs_response = <<>>
    /\ bs_unsplit = {}
    /\ bs_out = <<>>
    /\ bs_pc = "scan"
    /\ IdleSrt /\ IdleAudio /\ IdleGpt /\ IdleTa /\ IdleTrim /\ IdleChunk /\ IdleMs /\ IdleSub /\ IdleNlp /\ IdleMk

\* lines 132-152
BsScan ==
    /\ bs_pc = "scan"
    /\ bs_new' = [k \in 1..Len(bs_rows) |->
                     IF IsLong(bs_rows[k]) THEN <<>> ELSE <<bs_rows[k]>>]
    /\ bs_pc' = "batch"
    /\ UNCHANGED <<bs_rows, bs_joiner, bs_i, bs_batch, bs_response, bs_unsplit, bs_out>>
    /\ UNCHANGED bsOthers

\* lines 156-158, 92-96: ask_gpt raises for the batch, batch_split_sentences
\* returns {} and the loop goes to the next batch
BsBatchFails ==
    /\ bs_pc = "batch"
    /\ bs_i < Len(BsToSplit(bs_rows))
    /\ \E r \in BsAnswers(BsBatch(bs_rows, bs_i)) : BsRejected(BsBatch(bs_rows, bs_i), r)
    /\ bs_batch' = BsBatch(bs_rows, bs_i)
    /\ bs_response' = <<>>
    /\ bs_unsplit' = bs_unsplit \cup { bs_batch'[n] : n \in 1..Len(bs_batch') }
    /\ bs_i' = bs_i + batch_size
    /\ UNCHANGED <<bs_rows, bs_joiner, bs_new, bs_out, bs_pc>>
    /\ UNCHANGED bsOthers

\* lines 156-187, 92-126: ask_gpt returns a response and every object of it
\* has a "split"
BsBatchSplits ==
    /\ bs_pc = "batch"
    /\ bs_i < Len(BsToSplit(bs_rows))
    /\ \E r \in BsAnswers(BsBatch(bs_rows, bs_i)) :
        /\ ~BsRejected(BsBatch(bs_rows, bs_i), r)
        /\ ~BsKeyError(BsBatch(bs_rows, bs_i), r.body)
        /\ bs_response' = r.body
        /\ bs_unsplit' = bs_unsplit \cup Unusable(BsBatch(bs_rows, bs_i), r.body)
        /\ bs_new' =
             [k \in 1..Len(bs_rows) |->
                IF \E n \in 1..Len(BsBatch(bs_rows, bs_i)) : BsBatch(bs_rows, bs_i)[n] = k
                THEN LET split_result ==
                            best_split(bs_rows[k].text, r.body[BsKey(k)].split, bs_joiner)
                     IN  IF split_result # <<>>
                         THEN BsRecords(bs_rows[k], split_lines(split_result))
                         ELSE bs_new[k]
                ELSE bs_new[k]]
    /\ bs_batch' = BsBatch(bs_rows, bs_i)
    /\ bs_i' = bs_i + batch_size
    /\ UNCHANGED <<bs_rows, bs_joiner, bs_out, bs_pc>>
    /\ UNCHANGED bsOthers

\* lines 93, 99-102: ask_gpt returns a response with an object that has no
\* "split": KeyError, which nothing in the pass catches
BsBatchRaises ==
    /\ bs_pc = "batch"
    /\ bs_i < Len(BsToSplit(bs_rows))
    /\ \E r \in BsAnswers(BsBatch(bs_rows, bs_i)) :
        /\ ~BsRejected(BsBatch(bs_rows, bs_i), r)
        /\ BsKeyError(BsBatch(bs_rows, bs_i), r.body)
        /\ bs_response' = r.body
        /\ bs_unsplit' = bs_unsplit \cup Unusable(BsBatch(bs_rows, bs_i), r.body)
    /\ bs_batch' = BsBatch(bs_rows, bs_i)
    /\ bs_pc' = "raised"
    /\ UNCHANGED <<bs_rows, bs_joiner, bs_i, bs_new, bs_out>>
    /\ UNCHANGED bsOthers

\* lines 189-194: the loop over the batches has ended
BsFill ==
    /\ bs_pc = "batch"
    /\ ~(bs_i < Len(BsToSplit(bs_rows)))
    /\ bs_new' = [k \in 1..Len(bs_rows) |->
                     IF bs_new[k] = <<>> THEN <<bs_rows[k]>> ELSE bs_new[k]]
    /\ bs_out' = FlattenRows(bs_new')
    /\ bs_pc' = "returned"
    /\ UNCHANGED <<bs_rows, bs_joiner, bs_i, bs_batch, bs_response, bs_unsplit>>
    /\ UNCHANGED bsOthers

NextBs == BsScan \/ BsBatchFails \/ BsBatchSplits \/ BsBatchRaises \/ BsFill

SpecBatch == InitBs /\ [][NextBs]_vars

(***************************************************************************)
(* split_by_mark, process_group (core/spacy_utils/split_by_mark.py)        *)
(*                                                                         *)
(* A text is a sequence of pieces: a piece is the text of row `by` of the  *)
(* chunk table, or the joiner (by = 0).  Where the sentence boundaries of  *)
(* doc.sents fall is the language model's choice: any set of places        *)
(* between the pieces of the group.                                        *)
(***************************************************************************)
\* bound: the number of rows of cleaned_chunks.xlsx
MaxMkRows == 3

\* None: the speaker of a row without one (line 21), and of line 26
NoSpeaker == "NoSpeaker"

MkSpeakers == {"SPEAKER_00", "SPEAKER_01", NoSpeaker}

\* str(row['text']): a word, or a punctuation mark that is a row of its own
MkTexts == {"w", "."}

MkTables == UNION { [1..n -> [text : MkTexts, speaker_id : MkSpeakers]] : n \in 1..MaxMkRows }

\* line 59: the marks merged into the sentence before; the full-width ones
\* are named by their code points
MergedMarks == {",", ".", "uFF0C", "u3002", "uFF1F", "uFF01"}

Piece(w, by) == [w |-> w, by |-> by]

\* the joiner as pieces of no row
JoinerPieces(joiner) == [k \in 1..Len(joiner) |-> Piece(joiner[k], 0)]

\* str.strip() of a text of pieces
RECURSIVE StripPieces(_)
StripPieces(ps) ==
    IF ps # <<>> /\ ps[1].w = " " THEN StripPieces(Tail(ps))
    ELSE IF ps # <<>> /\ ps[Len(ps)].w = " " THEN StripPieces(SubSeq(ps, 1, Len(ps) - 1))
    ELSE ps

\* doc.sents: the spans of the group between the places of cuts
RECURSIVE Spans(_, _, _)
Spans(ps, cuts, from) ==
    IF \A c \in cuts : c <= from THEN <<SubSeq(ps, from + 1, Len(ps))>>
    ELSE LET c == CHOOSE x \in cuts : x > from /\ \A y \in cuts : y > from => x <= y
         IN  <<SubSeq(ps, from + 1, c)>> \o Spans(ps, cuts, c)

\* the rows of which a span holds text
RowsIn(span) == { span[k].by : k \in 1..Len(span) } \ {0}

\* lines 82-91: the earliest start and the latest end of the rows of which
\* the sentence holds text; None when it holds the text of no row
SentStart(span) ==
    IF RowsIn(span) = {} THEN -1
    ELSE StartOf(CHOOSE r \in RowsIn(span) : \A q \in RowsIn(span) : r <= q)
SentEnd(span) ==
    IF RowsIn(span) = {} THEN -1
    ELSE EndOf(CHOOSE r \in RowsIn(span) : \A q \in RowsIn(span) : r >= q)

\* lines 73-98 for the sentences spans[n..]
RECURSIVE SentRecords(_, _, _)
SentRecords(spans, n, speaker) ==
    IF n > Len(spans) THEN <<>>
    ELSE (IF StripPieces(spans[n]) = <<>> THEN <<>>
          ELSE << [text       |-> StripPieces(spans[n]),
                   start      |-> SentStart(spans[n]),
                   end        |-> SentEnd(spans[n]),
                   speaker_id |-> IF speaker = "None" THEN NoSpeaker ELSE speaker] >>)
         \o SentRecords(spans, n + 1, speaker)

\* lines 70-98: what process_group appends when the sentence boundaries are cuts
process_group(group_text, cuts, speaker) ==
    SentRecords(Spans(group_text, cuts, 0), 1, speaker)

\* line 59: item['text'].strip() in [',', '.', ...]
IsMark(item) ==
    Len(StripPieces(item.text)) = 1 /\ StripPieces(item.text)[1].w \in MergedMarks

\* lines 57-63 from item n (1-based) on
RECURSIVE final_sentences(_, _, _)
final_sentences(items, n, final) ==
    IF n > Len(items) THEN final
    ELSE IF n > 1 /\ IsMark(items[n]) /\ final # <<>>
    THEN final_sentences(items, n + 1,
            [final EXCEPT ![Len(final)] =
                [@ EXCEPT !.text = @ \o StripPieces(items[n].text),
                          !.end = Max(@, items[n].end)]])
    ELSE final_sentences(items, n + 1, Append(final, items[n]))

\* the places between the pieces of a group
CutSets(group_text) == SUBSET (1..(Len(group_text) - 1))

InitMk ==
    /\ mk_chunks \in MkTables
    /\ mk_joiner \in Joiners
    /\ mk_i = 0
    /\ mk_group = [current_speaker |-> NoSpeaker, group_text |-> <<>>]
    /\ sentences_by_mark = <<>>
    /\ mk_final = <<>>
    /\ mk_pc = "loop"
    /\ IdleSrt /\ IdleAudio /\ IdleGpt /\ IdleTa /\ IdleTrim /\ IdleChunk /\ IdleMs /\ IdleSub /\ IdleNlp /\ IdleBs

\* lines 30-44: a row of another speaker closes the group
MkNewGroup ==
    /\ mk_pc = "loop"
    /\ mk_i < Len(mk_chunks)
    /\ mk_chunks[mk_i + 1].speaker_id # mk_group.current_speaker
    /\ \E cuts \in CutSets(mk_group.group_text) :
          sentences_by_mark' =
             IF mk_group.group_text # <<>>
             THEN sentences_by_mark
                     \o process_group(mk_group.group_text, cuts, mk_group.current_speaker)
             ELSE sentences_by_mark
    /\ mk_group' = [current_speaker |-> mk_chunks[mk_i + 1].speaker_id,
                    group_text |-> <<Piece(mk_chunks[mk_i + 1].text, mk_i + 1)>>]
    /\ mk_i' = mk_i + 1
    /\ UNCHANGED <<mk_chunks, mk_joiner, mk_final, mk_pc>>
    /\ UNCHANGED mkOthers

\* lines 30-34, 45-50: a row of the speaker of the group
MkJoin ==
    /\ mk_pc = "loop"
    /\ mk_i < Len(mk_chunks)
    /\ mk_chunks[mk_i + 1].speaker_id = mk_group.current_speaker
    /\ mk_group' = [mk_group EXCEPT !.group_text =
                       @ \o JoinerPieces(mk_joiner)
                         \o <<Piece(mk_chunks[mk_i + 1].text, mk_i + 1)>>]
    /\ mk_i' = mk_i + 1
    /\ UNCHANGED <<mk_chunks, mk_joiner, sentences_by_mark, mk_final, mk_pc>>
    /\ UNCHANGED mkOthers

\* lines 52-54: the last group
MkLastGroup ==
    /\ mk_pc = "loop"
    /\ ~(mk_i < Len(mk_chunks))
    /\ \E cuts \in CutSets(mk_group.group_text) :
          sentences_by_mark' =
             IF mk_group.group_text # <<>>
             THEN sentences_by_mark
                     \o process_group(mk_group.group_text, cuts, mk_group.current_speaker)
             ELSE sentences_by_mark
    /\ mk_pc' = "merge"
    /\ UNCHANGED <<mk_chunks, mk_joiner, mk_i, mk_group, mk_final>>
    /\ UNCHANGED mkOthers

\* lines 56-67: the marks are merged and the table is written
MkWrite ==
    /\ mk_pc = "merge"
    /\ mk_final' = final_sentences(sentences_by_mark, 1, <<>>)
    /\ mk_pc' = "written"
    /\ UNCHANGED <<mk_chunks, mk_joiner, mk_i, mk_group, sentences_by_mark>>
    /\ UNCHANGED mkOthers

NextMk == MkNewGroup \/ MkJoin \/ MkLastGroup \/ MkWrite

SpecMark == InitMk /\ [][NextMk]_vars

(***************************************************************************)
(* Claims about process_srt                                                *)
(***************************************************************************)
\* the speakers of two entries are the same, null counting as equal to null
EqualSpeakers(a, b) == a = b

\* C2: whenever the scan stands at an entry with duration < MIN_SUB_DUR that
\* has a next entry, the two start times differ by less than MIN_SUB_DUR and
\* both have the same speaker, the step replaces the two entries by one with
\* text = text_i + " " + text_(i+1), start = start_i, end = end_(i+1); the
\* table gets shorter by exactly one and every other entry is unchanged.
C2_MergeLaw ==
    [][ ( /\ srt_pc = "loop"
          /\ i + 1 < Len(df)
          /\ df[i + 1].duration < MIN_SUB_DUR
          /\ df[i + 2].start_time - df[i + 1].start_time < MIN_SUB_DUR
          /\ EqualSpeakers(df[i + 1].speaker_id, df[i + 2].speaker_id) )
        => ( /\ Len(df') = Len(df) - 1
             /\ df'[i + 1].text = df[i + 1].text \o <<SP>> \o df[i + 2].text
             /\ df'[i + 1].start_time = df[i + 1].start_time
             /\ df'[i + 1].end_time = df[i + 2].end_time
             /\ \A k \in 1..i : df'[k] = df[k]
             /\ \A k \in (i + 2)..Len(df') : df'[k] = df[k + 1] ) ]_vars

\* a merge has taken place and the scan is still running
C2_Witness ==
    /\ srt_pc = "loop"
    /\ \E k \in 1..Len(df) : Len(df[k].text) = 3 /\ df[k].end_time = df_aligned[df[k].text[3]].end

\* the original entries whose text a row holds
EntriesOf(row) == { row.text[j] : j \in 1..Len(row.text) } \ {SP}

\* C3: no row of the table ever holds text of entries with different
\* speakers: every entry merged into a row had the speaker of that row
\* (null equal to null), after any number of successive merges.
C3_OneSpeakerPerTask ==
    srt_pc \in {"loop", "done"} =>
        \A k \in 1..Len(df) : \A e \in EntriesOf(df[k]) :
            EqualSpeakers(df_aligned[e].speaker_id, df[k].speaker_id)

\* the scan has ended after two successive merges into one row, or after a
\* merge next to a row of another speaker
C3_Witness ==
    /\ srt_pc = "done"
    /\ \/ \E k \in 1..Len(df) : Cardinality(EntriesOf(df[k])) = 3
       \/ \E k, m \in 1..Len(df) :
             /\ Cardinality(EntriesOf(df[k])) = 2
             /\ df[m].speaker_id # df[k].speaker_id

\* C4: in the returned table the number fields are 1, 2, ..., n in row order.
C4_NumbersSequential ==
    srt_pc = "done" => \A k \in 1..Len(df) : df[k].number = k

(***************************************************************************)
(* Claims about merge_audio_segments                                       *)
(***************************************************************************)
\* C5: the returned track lasts as long as the end time of the last task.
C5_TrackEndsAtLastEnd ==
    audio_pc = "done" => TrackLen(merged_audio) = tasks[Len(tasks)].end

\* where the clip of task k begins in a track
ClipOffset(track, k) ==
    LET p == CHOOSE j \in 1..Len(track) : track[j].kind = "clip" /\ track[j].task = k
    IN  TrackLen(SubSeq(track, 1, p - 1))

\* the track in which each of the tasks 1..k without a usable clip is silence
\* of the task's duration
RECURSIVE TrackWithSilence(_, _)
TrackWithSilence(ts, k) ==
    IF k = 0 THEN <<>>
    ELSE IF \E j \in 1..Len(merged_audio) :
                merged_audio[j].kind = "clip" /\ merged_audio[j].task = k
         THEN AppendSegment(TrackWithSilence(ts, k - 1), ts, k,
                            merged_audio[CHOOSE j \in 1..Len(merged_audio) :
                               merged_audio[j].kind = "clip" /\ merged_audio[j].task = k].dur)
         ELSE TrackWithSilence(ts, k - 1) \o SilencePieces(ts, k)
                \o << [kind |-> "silence", task |-> k, dur |-> ts[k].end - ts[k].start] >>

\* C6: a missing or undecodable clip does not abort the fold, and it is
\* replaced by silence of its task's duration: every clip of the track begins
\* at the offset it has in the track with that silence in place.
C6_MissingClipIsSilence ==
    /\ audio_pc # "raised"
    /\ audio_pc = "done" =>
          \A j \in 1..Len(merged_audio) :
              merged_audio[j].kind = "clip" =>
                  ClipOffset(merged_audio, merged_audio[j].task)
                    = ClipOffset(TrackWithSilence(tasks, Len(tasks)), merged_audio[j].task)

(***************************************************************************)
(* Claims about ask_gpt                                                    *)
(***************************************************************************)
\* C7: a 429 / rate-limit answer of the service never reaches the caller of
\* ask_gpt as an error: no call ends by raising the rate-limit error.
C7_RateLimitNotSurfaced ==
    \A t \in DOMAIN gpt : gpt[t].pc = "raised" => gpt[t].error # "429"

(***************************************************************************)
(* Claims about translate_all and translate_lines                          *)
(***************************************************************************)
\* the ids split_chunks_by_chars gave to the sentences of the chunks
AssignedIds == UNION { ExpectedIds(chunks[c][2]) : c \in 1..Len(chunks) }

\* C1: after translate_all has collected the results of all chunks, every
\* id assigned by split_chunks_by_chars is the id of exactly one collected
\* row and no other id is; the row of an id carries the source text, the
\* speaker and the window of the sentence with that id, and its translation
\* is not null, with and without the expressive step.
C1_EveryIdOnce ==
    ta_pc = "assembled" =>
        LET rows == all_results(results) IN
        /\ \A x \in AssignedIds : Cardinality({k \in 1..Len(rows) : rows[k].id = x}) = 1
        /\ \A k \in 1..Len(rows) : rows[k].id \in AssignedIds
        /\ Len(df_translate) = Len(rows)
        /\ \A k \in 1..Len(rows) :
              LET s == rows[k].id + 1 IN
              /\ s \in 1..Len(sentences_data)
              /\ df_translate[k].Source = [of |-> rows[k].id]
              /\ df_translate[k].speaker_id = sentences_data[s].speaker_id
              /\ df_translate[k].start = StartOf(s)
              /\ df_translate[k].end = EndOf(s)
              /\ df_translate[k].Translation # Null
              /\ df_translate[k].Translation.kind
                    = (IF reflect_translate THEN "expressiveness" ELSE "faithfulness")

\* C1 witness: a table of two sentences cut into two chunks has been
\* translated with the expressive step and assembled
C1_Witness ==
    /\ ta_pc = "assembled"
    /\ reflect_translate
    /\ Len(chunks) = 2
    /\ Len(df_translate) = 2

\* C8: a task whose request has used up the retries of ask_gpt and raised
\* does not abort translate_all: the run never ends with the exception of a
\* task.
C8_FailureConfined ==
    ~(/\ ta_pc = "raised"
      /\ \E c \in DOMAIN workers :
            workers[c].step = "raised" /\ workers[c].error \in {"service", "validation"})

\* C9: a request that follows an answer refused by the validator carries a
\* padding other than that of the request before it, a step sends at most 3
\* requests, and a task raises on a refused answer only after its third
\* request.
C9_PerturbedRetry ==
    \A c \in DOMAIN workers :
        LET w == workers[c]
            n == Len(w.prompts)
        IN  /\ (InFlight(c) /\ w.error = "validation") => w.prompts[n] # w.prompts[n - 1]
            /\ n <= 3
            /\ (w.step = "raised" /\ w.error = "validation") => n = 3

(***************************************************************************)
(* Claims about batch_trim_subtitles                                       *)
(***************************************************************************)
\* the item of the batch with key
ItemOf(key) == batches[CHOOSE k \in 1..Len(batches) : Str(batches[k].id) = key]

\* C10 (as stated): when the trim request of a batch has failed, the result
\* has an entry for exactly the ids of the batch and each entry is the
\* item's text with every character of the punctuation set replaced by a
\* space.
C10_FallbackReplacesPunctuation ==
    trim_pc = "fellback" =>
        /\ DOMAIN trim_result = BatchKeys(batches)
        /\ \A key \in DOMAIN trim_result :
              LET text == ItemOf(key).text IN
              /\ Len(trim_result[key]) = Len(text)
              /\ \A k \in 1..Len(text) :
                    trim_result[key][k] = (IF text[k] \in Punctuation THEN " " ELSE text[k])

\* the white space at the two ends of a text is left out
Trimmed(text) ==
    LET inner == { k \in 1..Len(text) : text[k] # " " } IN
    IF inner = {} THEN <<>>
    ELSE LET lo == CHOOSE k \in inner : \A j \in inner : k <= j
             hi == CHOOSE k \in inner : \A j \in inner : j <= k
         IN  [k \in 1..(hi - lo + 1) |-> text[lo + k - 1]]

\* C10 (amended): when ask_gpt has raised for the trim request of a batch,
\* after the requests of its retry wrapper and none more, the result has an
\* entry for exactly the ids of the batch and each entry is the item's text
\* with every character of the punctuation set replaced by a space and the
\* white space at its two ends then removed; it depends on the batch alone.
C10_FallbackStripsPunctuation ==
    trim_pc = "fellback" =>
        /\ trim_requests = GptRetry + 1
        /\ DOMAIN trim_result = BatchKeys(batches)
        /\ \A key \in DOMAIN trim_result :
              LET text == ItemOf(key).text
                  spaced == [k \in 1..Len(text) |->
                               IF text[k] \in Punctuation THEN " " ELSE text[k]]
              IN  trim_result[key] = Trimmed(spaced)

\* C10 witness: the fallback has answered for a batch of two items, one of
\* which ends in a full-width punctuation mark
C10_Witness ==
    /\ trim_pc = "fellback"
    /\ Len(batches) = 2
    /\ \E k \in 1..2 : batches[k].text = <<"a", "u3002">>
    /\ \E key \in DOMAIN trim_result : trim_result[key] = <<"a">>

(***************************************************************************)
(* Claims about RateLimiter                                                *)
(***************************************************************************)
\* C16: the cooldown is 0 or lies between 1 and 60 after any calls of
\* report_error and report_success by the threads; a step that raises it
\* sets it to 2 from 0 and doubles it otherwise, never beyond 60.
C16_CooldownBounded ==
    [][ /\ limiter'.cooldown_duration \in 0..60
        /\ limiter'.cooldown_duration > limiter.cooldown_duration =>
              limiter'.cooldown_duration =
                 (IF limiter.cooldown_duration = 0 THEN 2
                  ELSE Min(2 * limiter.cooldown_duration, 60)) ]_vars

\* C16 witness: a 429 has been recorded while the cooldown was above 30 s,
\* and the cooldown stands at the cap
C16_Witness ==
    /\ limiter.cooldown_duration = 60
    /\ limiter.last_429_time > 0

\* C17: no thread holds the lock of the rate limiter while it waits out a
\* cooldown or while its request is with the service.
C17_LockNotHeldAcrossWait ==
    \A t \in DOMAIN gpt : gpt[t].pc \in {"sleep", "inflight"} => lock # t

\* C18: a request is sent to the service no earlier than the time of the
\* last recorded 429 plus the cooldown.
C18_NoRequestInCooldown ==
    [][ \A t \in DOMAIN gpt :
          (gpt[t].pc = "send" /\ gpt'[t].pc = "inflight" /\ limiter.cooldown_duration > 0)
             => now >= limiter.last_429_time + limiter.cooldown_duration ]_vars

\* C19: the cooldown is lowered exactly by the third of three calls that
\* succeeded in a row with no failed call of any kind between them, and the
\* count of successes is that of the calls that succeeded in a row.
C19_DecayAfterThreeInARow ==
    [][ /\ limiter'.cooldown_duration < limiter.cooldown_duration => streak = 2
        /\ limiter'.consecutive_success = streak' ]_vars

(***************************************************************************)
(* Claims about split_chunks_by_chars                                      *)
(***************************************************************************)
\* the sentences of the chunks cs, in chunk order
RECURSIVE Flatten(_)
Flatten(cs) == IF cs = <<>> THEN <<>> ELSE cs[1][2] \o Flatten(Tail(cs))

\* the total length of the labeled lines of a chunk, each with its newline
CharCount(c) == SumSeq([j \in 1..Len(c) |-> c[j].labeled_len])

\* C20: the returned chunks, concatenated in chunk order, are the input
\* sentences in input order, each once; every chunk is non-empty, has at
\* most max_i sentences, and its labeled lines are at most chunk_size long
\* in total unless it consists of one sentence.
C20_ChunksPartitionInput ==
    ck_pc = "returned" =>
        LET cs == ck_acc.chunks IN
        /\ Flatten(cs) = [k \in 1..Len(ck_sentences) |-> sentence_data(ck_sentences, k)]
        /\ \A c \in 1..Len(cs) :
              /\ cs[c][2] # <<>>
              /\ Len(cs[c][2]) <= ck_max
              /\ (CharCount(cs[c][2]) <= ck_size \/ Len(cs[c][2]) = 1)

(***************************************************************************)
(* Claims about parallel_split_sentences                                   *)
(***************************************************************************)
Abs(x) == IF x < 0 THEN -x ELSE x

\* the durations of the records rs, summed
Durations(rs) == SumSeq([j \in 1..Len(rs) |-> rs[j].end - rs[j].start])

\* the lengths of the texts of the records rs, summed
TextLens(rs) == SumSeq([j \in 1..Len(rs) |-> rs[j].text.len])

\* C11: when a row with window [start, end] is cut into k >= 2 parts, the
\* durations of the parts sum to end - start up to the rounding of the two
\* outer boundaries to 0.001 s, and the duration of each part is its share
\* of end - start by character length, up to the rounding of its two
\* boundaries.
C11_DurationsSumToParent ==
    ms_pc \in {"fill", "returned"} =>
        \A k \in 1..Len(ms_sentences) :
            Len(new_sentences_data[k]) >= 2 =>
                LET rs == new_sentences_data[k]
                    duration == ms_sentences[k].end - ms_sentences[k].start
                IN  /\ Abs(Durations(rs) - duration) <= 10
                    /\ \A j \in 1..Len(rs) :
                          Abs((rs[j].end - rs[j].start) * TextLens(rs)
                                - rs[j].text.len * duration) <= 10 * TextLens(rs)

\* C11 witness: a row whose window starts off the 0.001 s grid has been cut
\* into three parts of different lengths
C11_Witness ==
    /\ ms_pc = "returned"
    /\ \E k \in 1..Len(ms_sentences) :
          /\ Len(new_sentences_data[k]) = 3
          /\ ms_sentences[k].start = 12345
          /\ new_sentences_data[k][1].text.len # new_sentences_data[k][2].text.len


(***************************************************************************)
(* Claims about split_for_sub_main                                         *)
(***************************************************************************)
\* C12: when every line of the input fits (the source is at most
\* MAX_SUB_LENGTH long and calc_len of the translation times
\* TARGET_SUB_MULTIPLIER is at most MAX_SUB_LENGTH), the run sends no request
\* and the source, translation and speaker sequences it writes are the ones
\* it read, so that a run on what it wrote reads the same table and writes
\* it again
C12_FittingInputUnchanged ==
    AllFit(sub_set, sub_in.src, sub_in.trans) =>
        /\ sub_requests = 0
        /\ sub_pc = "done" =>
              /\ sub_out[1].Source = sub_in.src
              /\ sub_out[1].Translation = sub_in.trans
              /\ sub_out[1].speaker_id = sub_in.speaker_ids

\* C12: a run over two fitting lines with speakers has written its tables
C12_Witness ==
    /\ sub_pc = "done"
    /\ AllFit(sub_set, sub_in.src, sub_in.trans)
    /\ Len(sub_in.src) = 2
    /\ sub_in.speaker_ids.some
    /\ sub_scans > 0

\* C14: a run calls split_align_subs at most 3 times, and never again after
\* a call whose result has no line to flag
C14_AtMostThreeScans ==
    [][ sub_scans' > sub_scans =>
          /\ sub_scans < 3
          /\ sub_scans > 0 => ~AllFit(sub_set, sub_ret.split_src, sub_ret.split_trans) ]_vars


(***************************************************************************)
(* Claims about the splitters of core/spacy_utils                          *)
(***************************************************************************)
\* C13: whenever split_by_comma, split_by_connectors, split_long_sentence
\* or split_extremely_long_sentence returned several parts, the parts joined
\* in order with the joiner of the language are the text it was given
C13_JoinGivesOriginal ==
    \A c \in nl_cuts : Len(c.parts) > 1 => join(nl_joiner, c.parts) = c.text

\* C15: every record split_long_by_root_main writes has a start and an end,
\* inside the window of the row of SPLIT_BY_MARK_FILE its text comes from
C15_RecordsCarryWindow ==
    nl_pc = "written" =>
        \A k \in 1..Len(nl_rows) :
           /\ {"start", "end"} \subseteq DOMAIN nl_rows[k]
           /\ \E w \in NlWindows :
                 w.start <= nl_rows[k].start /\ nl_rows[k].start <= nl_rows[k].end
                                             /\ nl_rows[k].end <= w.end


\* C30: in the remerged table, the remerged translation of every row comes
\* from the same line of the table read as the source text of that row
C30_RemergedBesideItsSource ==
    sub_pc = "done" =>
        \A j \in 1..Len(sub_out[1].Source) :
           sub_out[1].rem_origin[j] = sub_out[1].src_origin[j]


\* the texts of a table, one after the other
RECURSIVE ConcatTexts(_)
ConcatTexts(rows) == IF rows = <<>> THEN <<>> ELSE Head(rows).text \o ConcatTexts(Tail(rows))

\* C26: split_long_by_root_main does not fail, and the table it writes holds
\* the text of every fragment: the text of an empty or punctuation-only
\* fragment is at the end of the fragment before it
C26_PunctuationMergedBack ==
    nl_pc \in {"written", "raised"} =>
        /\ nl_pc = "written"
        /\ ConcatTexts(nl_rows) = ConcatTexts(nl_all)


(***************************************************************************)
(* More claims about process_srt                                           *)
(***************************************************************************)
\* the entry the scan stands at is under duration and cannot be merged with
\* the entry after it
ShortUnmergeable ==
    /\ srt_pc = "loop"
    /\ i < Len(df)
    /\ df[i + 1].duration < MIN_SUB_DUR
    /\ i + 1 < Len(df) =>
          ~( /\ df[i + 2].start_time - df[i + 1].start_time < MIN_SUB_DUR
             /\ EqualSpeakers(df[i + 1].speaker_id, df[i + 2].speaker_id) )

\* C25: in the returned table every entry but the last has a duration of at
\* least MIN_SUB_DUR; an under-duration entry that cannot be merged and is
\* not the last gets end_time = start_time + MIN_SUB_DUR and duration =
\* MIN_SUB_DUR, every other entry unchanged; the last entry, when under
\* duration, is left as it was
C25_DurationFloor ==
    [][ /\ srt_pc' = "done" =>
              \A k \in 1..(Len(df') - 1) : df'[k].duration >= MIN_SUB_DUR
        /\ (ShortUnmergeable /\ i + 1 < Len(df)) =>
              /\ Len(df') = Len(df)
              /\ df'[i + 1] = [df[i + 1] EXCEPT
                                  !.end_time = df[i + 1].start_time + MIN_SUB_DUR,
                                  !.duration = MIN_SUB_DUR]
              /\ \A k \in 1..Len(df) : k # i + 1 => df'[k] = df[k]
        /\ (ShortUnmergeable /\ i + 1 = Len(df)) => df' = df ]_vars

\* C25: the returned table has an entry that was extended, followed by a
\* last entry that is under duration
C25_Witness ==
    /\ srt_pc = "done"
    /\ Len(df) >= 2
    /\ df[Len(df)].duration < MIN_SUB_DUR
    /\ \E k \in 1..(Len(df) - 1) :
          /\ df[k].text = <<df[k].number>>
          /\ df_aligned[df[k].number].duration < MIN_SUB_DUR
          /\ df[k].duration = MIN_SUB_DUR


\* C28: the scan ends for every input table: an iteration of the loop either
\* moves i on by one or removes one entry, so the iterations made so far,
\* i plus the entries removed, never exceed twice the number of input entries
C28_ScanTerminates ==
    /\ [][ (srt_pc = "loop" /\ srt_pc' = "loop") =>
              \/ i' = i + 1 /\ Len(df') = Len(df)
              \/ i' = i /\ Len(df') = Len(df) - 1 ]_vars
    /\ [](srt_pc = "loop" =>
              i + (Len(ParseRows(df_aligned, 1)) - Len(df)) <= 2 * Len(df_aligned))
    /\ <>(srt_pc = "done")

\* C28: a scan that removed two entries of three has ended
C28_Witness ==
    /\ srt_pc = "done"
    /\ Len(df_aligned) = 3
    /\ Len(df) = 1
    /\ i = 1


(***************************************************************************)
(* More claims about translate_all                                         *)
(***************************************************************************)
\* the result lists of the chunk tasks from chunk c on, in chunk order
RECURSIVE InChunkOrder(_)
InChunkOrder(c) ==
    IF c > Len(workers) THEN <<>> ELSE workers[c].result_list \o InChunkOrder(c + 1)

\* C21: the assembled table is made of the result lists of the chunks in
\* chunk order, whatever the order in which the tasks completed, and its
\* rows are in increasing id order
C21_OrderOfCompletionIrrelevant ==
    ta_pc = "assembled" =>
        /\ df_translate = DfTranslate(InChunkOrder(1))
        /\ \A k \in 1..(Len(InChunkOrder(1)) - 1) :
              InChunkOrder(1)[k].id < InChunkOrder(1)[k + 1].id

\* C21: a table was assembled from two chunks of which the second completed
\* first
C21_Witness ==
    /\ ta_pc = "assembled"
    /\ Len(results) = 2
    /\ results[1][1] > results[2][1]
    /\ Len(df_translate) >= 2

\* C24: after the batched trimming of translate_all the table has the rows it
\* had, and every row that was not flagged and sent has the translation it had
C24_OnlyFlaggedChanged ==
    trim_pc = "applied" =>
        /\ DOMAIN df_time = DOMAIN DfTime(batches)
        /\ \A l \in DOMAIN DfTime(batches) :
              Str(l) \notin BatchKeys(batches) => df_time[l] = DfTime(batches)[l]

\* C22: a response that ask_gpt returned for a batch, and that
\* batch_split_sentences goes on to recover split points from, has for
\* every requested id an object with a "split" text that holds "[br]"
C22_AcceptedResponseHasDelimiters ==
    bs_response # <<>> =>
        \A n \in 1..Len(bs_batch) :
            /\ BsKey(bs_batch[n]) \in DOMAIN bs_response
            /\ bs_response[BsKey(bs_batch[n])].has_split
            /\ \E p \in 1..Len(bs_response[BsKey(bs_batch[n])].split) :
                  bs_response[BsKey(bs_batch[n])].split[p] = "[br]"

\* C23: the pass does not fail, and a sentence whose request failed or whose
\* response held no usable split is returned at its place with its text,
\* speaker and window
C23_UnsplitSentenceKept ==
    /\ bs_pc # "raised"
    /\ bs_pc = "returned" =>
          \A k \in bs_unsplit : bs_new[k] = <<bs_rows[k]>>

\* the non-empty stripped pieces of text between the cut offsets
RECURSIVE Pieces(_, _, _)
Pieces(text, cuts, from) ==
    IF \A c \in cuts : c <= from
    THEN (IF strip_ws(SubSeq(text, from + 1, Len(text))) = <<>> THEN <<>>
          ELSE <<strip_ws(SubSeq(text, from + 1, Len(text)))>>)
    ELSE LET c == CHOOSE x \in cuts : x > from /\ \A y \in cuts : y > from => x <= y
         IN  (IF strip_ws(SubSeq(text, from + 1, c)) = <<>> THEN <<>>
              ELSE <<strip_ws(SubSeq(text, from + 1, c))>>) \o Pieces(text, cuts, c)

\* C29: the parts returned for a sentence are pieces of the sentence's own
\* text cut at some offsets, white space at the cuts removed, one after
\* the other at the sentence's place and with the sentence's speaker
C29_PartsAreTheSentence ==
    bs_pc = "returned" =>
        /\ bs_out = FlattenRows(bs_new)
        /\ \A k \in 1..Len(bs_rows) :
              /\ \E cuts \in SUBSET (1..(Len(bs_rows[k].text) - 1)) :
                    [j \in 1..Len(bs_new[k]) |-> bs_new[k][j].text]
                       = Pieces(bs_rows[k].text, cuts, 0)
              /\ \A j \in 1..Len(bs_new[k]) : bs_new[k][j].speaker_id = bs_rows[k].speaker_id

\* a sentence was cut in two or more parts on a response whose text is not
\* the sentence's
C29_Witness ==
    /\ bs_pc = "returned"
    /\ \E k \in 1..Len(bs_rows) :
          /\ Len(bs_new[k]) >= 2
          /\ BsKey(k) \in DOMAIN bs_response
          /\ SelectSeq(bs_response[BsKey(k)].split, LAMBDA c : c # "[br]") # bs_rows[k].text

\* the speaker of row r of the chunk table
SpeakerOfRow(r) == mk_chunks[r].speaker_id

\* C27: every sentence written holds text of rows of one speaker only, the
\* speaker in its speaker_id
C27_SentenceOfOneSpeaker ==
    mk_pc = "written" =>
        \A n \in 1..Len(mk_final) :
            \A r \in RowsIn(mk_final[n].text) : SpeakerOfRow(r) = mk_final[n].speaker_id

====
